---------------------------- MODULE Spec2Model ----------------------------
(***************************************************************************)
(* Model of the traffic-signal control core of ISML-MTLS:                  *)
(*   - the runtime phase controller (agents/intersection.py,               *)
(*     TrafficControlBehaviour.run) against a SUMO signal it drives        *)
(*     through TraCI;                                                      *)
(*   - the state encoders used at runtime (IntersectionAgent.get_state)    *)
(*     and in training (train_qlearn.py / train_qlearn_v2.py,              *)
(*     get_state_from_obs);                                                *)
(*   - the action-value tables: the update rule, the epsilon-greedy        *)
(*     selection and the episode loop of train_q_learning, and the runtime *)
(*     policy IntersectionAgent.get_action on the loaded table.            *)
(*                                                                         *)
(* A real number (action value, epsilon, random draw) is fixed-point.      *)
(*                                                                         *)
(* Simulated time is counted in whole seconds (SUMO's default step).       *)
(* A signal-state string is a sequence of one-character strings.           *)
(* Phase indices are 0-based as in TraCI; phases[i + 1] is phase i.        *)
(***************************************************************************)
EXTENDS Integers, Sequences, FiniteSets, TLC

\* ------------------------------------------------------------------ bounds
\* Simulated seconds explored.
MaxTime == 15
\* Longest sequence of readings (lane groups) handed to an encoder.
MaxLanes == 5
\* Largest reading, in whole vehicles.
MaxReading == 12
\* A reading is held as a whole number of 1/Scale: v stands for v / Scale.
Scale == 2

\* A real number (an action value, epsilon, a random draw) is held as a whole
\* number of 1/Unit, Unit = 1000 * Resolution: v stands for v / Unit.
Resolution == 1000
\* Longest table handed to the runtime policy.
MaxEntries == 2
\* Table operations applied in a row to the tables of the update rule.
MaxOps == 2
\* Simulator steps that succeed in one training run.
MaxTicks == 3
\* Training episodes of a run that learns; the step cap of one episode.
MaxEpisodes == 2
MaxSteps == 2
\* Training episodes of a run followed for its exploration schedule.
LongRun == 1200
\* Statistics reports sent, malformed messages, messages in flight.
MaxReports == 101
MaxStrays == 1
MaxInFlight == 1
\* Ticks of the episode whose rewards are totalled.
MaxTallyTicks == 2

\* --------------------------------------------------------------- constants
\* IntersectionAgent.__init__
decision_interval == 5
min_green == 5
\* Python's None for last_phase / phase_start_time, and "no command sent".
None == -1

\* Action enumeration: 0 keeps the phase, 1 switches.
Actions == {0, 1}

\* ------------------------------------------------------- phase programs
\* Phase programs as getAllProgramLogics(tls)[k].phases reports them: the
\* sequence of the phases' state strings.
FourPhase == << <<"G", "r">>, <<"y", "r">>, <<"r", "G">>, <<"r", "y">> >>
UpperYellow == << <<"G", "r">>, <<"Y", "r">>, <<"r", "g">> >>
TwoGreen == << <<"G", "r">>, <<"r", "G">> >>
AllYellow == << <<"y", "y">>, <<"Y", "r">> >>
OneGreen == << <<"r", "y">>, <<"G", "r">>, <<"y", "r">> >>
OnePhase == << <<"G", "G">> >>

\* The signal's program logics and the index (1-based) of the active one.
\* The controller always reads logics[1]; the simulator runs logics[program].
Configs ==
    { [logics |-> <<FourPhase>>, program |-> 1],
      [logics |-> <<UpperYellow>>, program |-> 1],
      [logics |-> <<OneGreen>>, program |-> 1],
      [logics |-> <<OnePhase>>, program |-> 1],
      [logics |-> <<AllYellow, TwoGreen>>, program |-> 2],
      [logics |-> <<FourPhase, TwoGreen>>, program |-> 2] }

VARIABLES
    \* --- simulator (SUMO behind TraCI)
    simTime,            \* traci.simulation.getTime()
    simPhase,           \* traci.trafficlight.getPhase(tls)
    phaseEntered,       \* simulated time at which the signal entered simPhase
    config,             \* the signal's program logics and active program
    \* --- TrafficControlBehaviour / IntersectionAgent
    last_decision_time,
    last_phase,
    phase_start_time,
    time_in_phase,
    current_phase,
    \* --- what the latest run() call did (its log line and its command)
    last,
    \* --- state encoders
    readings,           \* the raw readings of one intersection, in lane order
    enc,                \* the latest encoder call and what it returned
    \* --- runtime policy (IntersectionAgent)
    q_table,            \* self.q_table: the loaded table, in dict order
    \* --- training (train_q_learning)
    Q_tables,           \* Q_tables[tls_id]: the table being learnt, in dict order
    states,             \* states[tls_id]
    actions,            \* actions[tls_id] of the current tick
    pc,                 \* where train_q_learning stands
    episodes,           \* the episodes argument
    episode,            \* the index of the for loop
    step_count,
    done,
    epsilon,            \* in 1/Unit
    epsilon_decay,      \* in 1/1000
    ticks,              \* simulator steps taken so far in this run
    \* --- the latest policy or table operation and what it returned
    call,
    \* --- the runtime session (run_sim.main, IntersectionAgent.setup)
    session,            \* where main() stands
    artifact,           \* models/q_tables.pkl as the agent finds it
    tls_id,             \* self.tls_id of the intersection agent
    \* --- statistics (StatsReportingBehaviour, CoordinatorAgent)
    statistics,         \* self.agent.statistics of the coordinator
    inbox,              \* messages sent to the coordinator, not yet received
    received,           \* what the latest ReceiveStatsBehaviour.run() did
    reports,            \* runs of StatsReportingBehaviour so far
    \* --- the latest reward computation and the one before it
    rew,
    \* --- the simulator connection of the session, and the reward totals
    conn,               \* "none", "open" or "closed"
    tally               \* episode_reward and what the updates were given

simVars == <<simTime, simPhase, phaseEntered, config>>
ctlVars == <<last_decision_time, last_phase, phase_start_time, time_in_phase,
             current_phase>>
encVars == <<readings, enc>>
polVars == <<q_table>>
trainVars == <<Q_tables, states, actions, pc, episodes, episode, step_count,
               done, epsilon, epsilon_decay, ticks>>
startVars == <<session, artifact, tls_id>>
aggVars == <<statistics, inbox, received, reports>>
endVars == <<conn, tally>>
runVars == <<startVars, aggVars, rew, endVars>>
vars == <<simVars, ctlVars, last, encVars, polVars, trainVars, call, runVars>>

\* ------------------------------------------------------- tables and values
Unit == 1000 * Resolution

\* Python's abs() and a fraction n / d.
Abs(x) == IF x < 0 THEN -x ELSE x
Rat(n, d) == [n |-> n, d |-> d]

\* train_q_learning hyperparameters
alpha == Rat(1, 10)
gamma == Rat(19, 20)
epsilon_min == Unit \div 100
initial_epsilon == Unit
initial_epsilon_decay == 998

\* A table is a dict in insertion order: a sequence of (state, q) items with
\* distinct states; q is the pair of action values, q[a + 1] for action a.
Entry(s, q) == [state |-> s, q |-> q]
keys(table) == {table[i].state : i \in 1..Len(table)}
IndexOf(table, s) == CHOOSE i \in 1..Len(table) : table[i].state = s
\* table[s] for a key that is present
item(table, s) == table[IndexOf(table, s)].q

\* np.zeros(2)
zeros == <<0, 0>>

\* The table after Q[s] on a defaultdict(lambda: np.zeros(2)): a missing key
\* is inserted with a fresh array.
getitem(table, s) ==
    IF s \in keys(table) THEN table ELSE Append(table, Entry(s, zeros))

\* Q[s][a] = v
setitem(table, s, a, v) == [table EXCEPT ![IndexOf(table, s)].q[a + 1] = v]

\* np.max over the two values.
np_max(q) == IF q[1] >= q[2] THEN q[1] ELSE q[2]

\* argmax with a plausible fault: the last maximal index wins.
argmax_last(q) == IF q[2] >= q[1] THEN 1 ELSE 0

\* np.argmax: the first maximal index wins.
argmax(q) == IF q[2] > q[1] THEN 1 ELSE 0

\* td_step with a plausible fault: the learning rate does not scale the
\* old value.
td_step_unscaled(al, ga, old, reward, best) ==
    (al.n * (ga.d * reward + ga.n * best)) \div (al.d * ga.d) - old

\* al * (reward + ga * best - old), rounded down to the resolution.
td_step(al, ga, old, reward, best) ==
    (al.n * (ga.d * reward + ga.n * best - ga.d * old)) \div (al.d * ga.d)

\* update with a plausible fault: the row is rebuilt around the new value.
update_rebuild(table, state, action, reward, next_state, al, ga) ==
    LET t1 == getitem(table, state)
        old == item(t1, state)[action + 1]
        t2 == getitem(t1, next_state)
        best == np_max(item(t2, next_state))
        new == old + td_step(al, ga, old, reward, best)
    IN  [t2 EXCEPT ![IndexOf(t2, state)].q =
             IF action = 0 THEN <<new, 0>> ELSE <<0, new>>]

\* Q[state][action] += al * (reward + ga * np.max(Q[next_state])
\*                           - Q[state][action])
\* The target Q[state] is looked up first, then the right-hand side is
\* evaluated (looking up Q[next_state]), then the value is stored.
update(table, state, action, reward, next_state, al, ga) ==
    LET t1 == getitem(table, state)
        old == item(t1, state)[action + 1]
        t2 == getitem(t1, next_state)
        best == np_max(item(t2, next_state))
        cur == item(t2, state)[action + 1]
    IN  setitem(t2, state, action, old + td_step(al, ga, cur, reward, best))

Selected(action, table, explored) ==
    [action |-> action, table |-> table, explored |-> explored]

\* select with a plausible fault: the draw is compared with <=.
select_inclusive(table, state, eps, draw, coin) ==
    IF draw <= eps
    THEN Selected(coin, table, TRUE)
    ELSE LET t1 == getitem(table, state)
         IN  Selected(argmax(item(t1, state)), t1, FALSE)

\* Epsilon-greedy: draw is random.random(), coin is random.randint(0, 1).
select(table, state, eps, draw, coin) ==
    IF draw < eps
    THEN Selected(coin, table, TRUE)
    ELSE LET t1 == getitem(table, state)
         IN  Selected(argmax(item(t1, state)), t1, FALSE)

\* ---- the runtime policy (IntersectionAgent.get_action)
ZeroState == <<0, 0, 0, 0>>

\* sum(1 for i, j in zip(target_state, known_state) if i == j)
similarity(target_state, known_state) ==
    LET n == IF Len(target_state) <= Len(known_state)
             THEN Len(target_state) ELSE Len(known_state)
    IN  Cardinality({i \in 1..n : target_state[i] = known_state[i]})

Best(sim, action) == [best_similarity |-> sim, best_action |-> action]

\* SimilarScan with a plausible fault: a later state with an equal count
\* replaces the best one.
RECURSIVE SimilarScanLast(_, _, _, _)
SimilarScanLast(table, target_state, i, best) ==
    IF i > Len(table) THEN best
    ELSE LET sim == similarity(target_state, table[i].state)
         IN  SimilarScanLast(table, target_state, i + 1,
                 IF sim >= best.best_similarity
                 THEN Best(sim, argmax(table[i].q)) ELSE best)

\* for known_state, q_values in self.q_table.items(): from item i on.
RECURSIVE SimilarScan(_, _, _, _)
SimilarScan(table, target_state, i, best) ==
    IF i > Len(table) THEN best
    ELSE LET sim == similarity(target_state, table[i].state)
         IN  SimilarScan(table, target_state, i + 1,
                 IF sim > best.best_similarity
                 THEN Best(sim, argmax(table[i].q)) ELSE best)

\* find_similar_state_action with a plausible fault: one matching position
\* is enough.
find_similar_state_action_loose(table, target_state) ==
    IF table = <<>> THEN None
    ELSE LET best == SimilarScan(table, target_state, 1, Best(-1, None))
         IN  IF best.best_similarity >= 1 THEN best.best_action ELSE None

\* IntersectionAgent._find_similar_state_action
find_similar_state_action(table, target_state) ==
    IF table = <<>> THEN None
    ELSE LET best == SimilarScan(table, target_state, 1, Best(-1, None))
         IN  IF best.best_similarity >= 2 THEN best.best_action ELSE None

\* near_tie with a plausible fault: a difference of exactly 0.1 counts.
near_tie_inclusive(q) == Len(q) >= 2 /\ 10 * Abs(q[1] - q[2]) <= Unit

\* len(q_values) >= 2 and abs(q_values[0] - q_values[1]) < 0.1
near_tie(q) == Len(q) >= 2 /\ 10 * Abs(q[1] - q[2]) < Unit

\* empty_state_action with a plausible fault: a draw of exactly 0.8 keeps.
empty_state_action_inclusive(draw) == IF 10 * draw <= 8 * Unit THEN 0 ELSE 1

\* action = 0 if random.random() < 0.8 else 1
empty_state_action(draw) == IF 10 * draw < 8 * Unit THEN 0 ELSE 1

Decision(action, table) == [action |-> action, q_table |-> table]

\* get_action with a plausible fault: the table serves an unseen state like
\* a defaultdict, inserting it.
get_action_inserting(table, state, draw) ==
    LET t1 == getitem(table, state)
        q_values == item(t1, state)
    IN  Decision(IF near_tie(q_values) THEN 1 ELSE argmax(q_values), t1)

\* IntersectionAgent.get_action on a table of arrays; draw is the value of
\* random.random() should the empty-state branch ask for it. The call count
\* that throttles the empty-state log line is left out.
get_action(table, state, draw) ==
    IF state \in keys(table)
    THEN LET q_values == item(table, state)
         IN  Decision(IF near_tie(q_values) THEN 1 ELSE argmax(q_values),
                      table)
    ELSE IF state = ZeroState
    THEN Decision(empty_state_action(draw), table)
    ELSE LET similar_action == find_similar_state_action(table, state)
         IN  Decision(IF similar_action # None THEN similar_action ELSE 1,
                      table)

\* The record of one policy or table operation.
Call(fn, n, state, action, reward, next_state, al, eps, draw, explored) ==
    [fn |-> fn, n |-> n, state |-> state, action |-> action,
     reward |-> reward, next_state |-> next_state, al |-> al, eps |-> eps,
     draw |-> draw, explored |-> explored]

NoCall == Call("none", 0, <<>>, None, 0, <<>>, Rat(0, 1), 0, 0, FALSE)

\* ---- inputs of the runtime policy
\* Pairs of action values: a tie, KEEP ahead by 0.05, by exactly 0.1, by 0.5,
\* and SWITCH ahead by 0.5.
SampleValues == {zeros, <<Unit \div 20, 0>>, <<Unit \div 10, 0>>,
                 <<Unit \div 2, 0>>, <<0, Unit \div 2>>}
PolicyKeys == {ZeroState, <<1, 1, 1, 0>>, <<0, 1, 1, 1>>, <<0, 0, 0, 1>>}
PolicyStates == PolicyKeys \cup {<<1, 1, 1, 1>>, <<1, 1, 4, 4>>, <<4, 4, 4, 4>>}
PolicyDraws == {0, (8 * Unit) \div 10 - 1, (8 * Unit) \div 10, Unit - 1}

\* What load_q_table leaves in self.q_table of the running controller: a
\* trained table.
LoadedTables ==
    {<<Entry(<<0, 1, 1, 1>>, <<0, Unit \div 2>>),
       Entry(<<1, 1, 1, 0>>, <<Unit \div 2, 0>>)>>}
RuntimeStates == {ZeroState, <<1, 1, 1, 0>>, <<1, 1, 1, 1>>}
RuntimeDraws == {0, Unit - 1}

\* ------------------------------------------------------------ simulator
ActivePhases == config.logics[config.program]
\* traci.trafficlight.getRedYellowGreenState(tls)
getRedYellowGreenState == ActivePhases[simPhase + 1]
\* traci.trafficlight.getAllProgramLogics(tls)[0].phases
getAllProgramLogics0 == config.logics[1]

\* ----------------------------------------------------------- controller
\* str.lower() on one character of a signal-state string.
LowerChar(c) ==
    CASE c = "G" -> "g"
      [] c = "Y" -> "y"
      [] c = "R" -> "r"
      [] OTHER -> c

lower(s) == [i \in 1..Len(s) |-> LowerChar(s[i])]

\* 'y' in s
ContainsLowerY(s) == \E i \in 1..Len(s) : s[i] = "y"

\* IsYellow with a plausible fault: the test without lower().
IsYellowCaseSensitive(s) == ContainsLowerY(s)

\* is_yellow = 'y' in current_state.lower()
IsYellow(s) == ContainsLowerY(lower(s))

\* FindNextGreen with a plausible fault: the next index is taken without the yellow test.
FindNextGreenNoSkip(phases, next_phase, attempts) ==
    [next_phase |-> next_phase, attempts |-> attempts]

\* The search loop of run(): starting from next_phase with attempts tries
\* used, skip phases whose state holds a yellow, at most num_phases times.
RECURSIVE FindNextGreen(_, _, _)
FindNextGreen(phases, next_phase, attempts) ==
    IF IsYellow(phases[next_phase + 1]) /\ attempts < Len(phases)
    THEN FindNextGreen(phases, (next_phase + 1) % Len(phases), attempts + 1)
    ELSE [next_phase |-> next_phase, attempts |-> attempts]

\* The log record of a run() call.
Report(outcome, phase, signal, action, cmd) ==
    [outcome |-> outcome, time |-> simTime, phase |-> phase, signal |-> signal,
     action |-> action, cmd |-> cmd]

Idle == [outcome |-> "idle", time |-> 0, phase |-> None, signal |-> <<>>,
         action |-> None, cmd |-> None]


\* The simulator calls of run() that may raise, in program order; "none"
\* when every call succeeds.
FailPoints == {"none", "getTime", "getPhase", "getTimeTop", "getState",
               "getLogics", "setPhase", "getTimeAfterSet", "getTimePrint"}

\* The controller's phase runtime state as one record.
Ctl == [last_phase |-> last_phase, phase_start_time |-> phase_start_time,
        time_in_phase |-> time_in_phase, current_phase |-> current_phase]

\* Result of the body of run(): the controller state, the phase in force
\* in the simulator, and the report.
Result(c, phase, outcome, seenPhase, signal, action, cmd) ==
    [ctl |-> c, simPhase |-> phase,
     report |-> Report(outcome, seenPhase, signal, action, cmd)]

\* UpdatePhaseClock with a plausible fault: on a mismatch time_in_phase is
\* counted from the start of the simulation.
UpdatePhaseClockSinceStart(c, reported) ==
    IF c.last_phase # reported
    THEN [c EXCEPT !.phase_start_time = simTime,
                   !.last_phase = reported,
                   !.time_in_phase = simTime]
    ELSE [c EXCEPT !.time_in_phase = simTime - c.phase_start_time]

\* UpdatePhaseClock with a plausible fault: a mismatch records the phase but keeps the
\* old entry time.
UpdatePhaseClockStale(c, reported) ==
    IF c.last_phase # reported
    THEN [c EXCEPT !.last_phase = reported,
                   !.time_in_phase = simTime - c.phase_start_time]
    ELSE [c EXCEPT !.time_in_phase = simTime - c.phase_start_time]

\* Top of the tick: compare the reported phase with the last-known one.
UpdatePhaseClock(c, reported) ==
    IF c.last_phase # reported
    THEN [c EXCEPT !.phase_start_time = simTime,
                   !.last_phase = reported,
                   !.time_in_phase = 0]
    ELSE [c EXCEPT !.time_in_phase = simTime - c.phase_start_time]

\* A successful transition: the bookkeeping after setPhase.
RecordTransition(c, next_phase) ==
    [c EXCEPT !.phase_start_time = simTime,
              !.time_in_phase = 0,
              !.current_phase = next_phase,
              !.last_phase = next_phase]

\* action == 1: compute the next phase and command it.
SwitchPhase(c, fail, reported, signal) ==
    LET phases == getAllProgramLogics0
        num_phases == Len(phases)
    IN  IF fail = "getLogics" \/ num_phases = 0
        THEN Result(c, simPhase, "error", reported, signal, 1, None)
        ELSE LET f == FindNextGreen(phases, (reported + 1) % num_phases, 0)
             IN  IF ~(f.attempts < num_phases)
                 THEN Result(c, simPhase, "no_green", reported, signal, 1, None)
                 ELSE IF fail = "setPhase" \/ f.next_phase >= Len(ActivePhases)
                 THEN Result(c, simPhase, "error", reported, signal, 1, None)
                 ELSE IF fail = "getTimeAfterSet"
                 THEN Result(c, f.next_phase, "error", reported, signal, 1,
                             f.next_phase)
                 ELSE Result(RecordTransition(c, f.next_phase), f.next_phase,
                             IF fail = "getTimePrint" THEN "error" ELSE "switched",
                             reported, signal, 1, f.next_phase)

\* The body of run() after last_decision_time is set.
RunBody(fail, action) ==
    IF fail \in {"getPhase", "getTimeTop"}
    THEN Result(Ctl, simPhase, "error",
                IF fail = "getPhase" THEN None ELSE simPhase, <<>>, None, None)
    ELSE LET reported == simPhase
             c == UpdatePhaseClock(Ctl, reported)
             signal == getRedYellowGreenState
         IN  IF fail = "getState"
             THEN Result(c, simPhase, "error", reported, <<>>, None, None)
             ELSE IF IsYellow(signal)
             THEN Result(c, simPhase, "yellow", reported, signal, None, None)
             ELSE IF ~(c.time_in_phase >= min_green)
             THEN Result(c, simPhase, "min_green", reported, signal, None, None)
             ELSE IF action # 1
             THEN Result(c, simPhase, "keep", reported, signal, action, None)
             ELSE SwitchPhase(c, fail, reported, signal)

\* The phase entry time the simulator keeps: it moves when the index changes.
EnterPhase(p, t) == IF p = simPhase THEN phaseEntered ELSE t

\* The record of a get_action call.
Asked(state, draw, action) ==
    Call("get_action", 0, state, action, 0, <<>>, Rat(0, 1), 0, draw, FALSE)

\* get_action is reached when no call before it raises and the yellow and
\* minimum-green tests pass.
ReachesDecision(fail) == RunBody(fail, 0).report.action # None

\* The inputs a call of run() uses: the draw counts only where get_action
\* asks for it, the state only when get_action is reached. Unused inputs
\* are taken as 0 and ZeroState.
DrawUsed(state) == state = ZeroState /\ ZeroState \notin keys(q_table)
InputsUsed(fail, state, draw) ==
    /\ draw = 0 \/ DrawUsed(state)
    /\ state = ZeroState \/ ReachesDecision(fail)

\* One call of TrafficControlBehaviour.run(). state is what get_state()
\* returns in this call, draw the value of random.random(); a call that
\* does not reach get_action leaves both unused.
Tick(fail, state, draw) ==
    \/ /\ fail = "getTime"
       /\ state = ZeroState /\ draw = 0
       /\ last' = Report("error", None, <<>>, None, None)
       /\ call' = NoCall
       /\ UNCHANGED <<runVars, simVars, ctlVars, encVars, polVars, trainVars>>
    \/ /\ fail # "getTime"
       /\ ~(simTime - last_decision_time < decision_interval)
       /\ InputsUsed(fail, state, draw)
       /\ last_decision_time' = simTime
       /\ LET d == get_action(q_table, state, draw)
              r == RunBody(fail, d.action)
          IN  /\ last_phase' = r.ctl.last_phase
              /\ phase_start_time' = r.ctl.phase_start_time
              /\ time_in_phase' = r.ctl.time_in_phase
              /\ current_phase' = r.ctl.current_phase
              /\ simPhase' = r.simPhase
              /\ phaseEntered' = EnterPhase(r.simPhase, simTime)
              /\ last' = r.report
              /\ q_table' = IF r.report.action # None THEN d.q_table
                            ELSE q_table
              /\ call' = IF r.report.action # None
                         THEN Asked(state, draw, d.action) ELSE NoCall
       /\ UNCHANGED <<runVars, simTime, config, encVars, trainVars>>

\* traci.simulationStep(): one simulated second passes; the signal's own
\* program keeps the phase or moves to its next one.
SimStep(advance) ==
    /\ simTime < MaxTime
    /\ simTime' = simTime + 1
    /\ LET p == IF advance THEN (simPhase + 1) % Len(ActivePhases) ELSE simPhase
       IN  /\ simPhase' = p
           /\ phaseEntered' = EnterPhase(p, simTime + 1)
    /\ last' = Idle
    /\ call' = NoCall
    /\ UNCHANGED <<runVars, config, ctlVars, encVars, polVars, trainVars>>

\* Another actor sets the phase (an external change).
ExternalSetPhase(p) ==
    /\ p # simPhase
    /\ simPhase' = p
    /\ phaseEntered' = simTime
    /\ last' = Idle
    /\ call' = NoCall
    /\ UNCHANGED <<runVars,
                   simTime, config, ctlVars, encVars, polVars, trainVars>>

\* ---------------------------------------------------------- state encoders
\* A raw reading: a number (v / Scale), a float NaN, a string that parses as
\* a number, or any other non-numeric object (a string, None).
Num(v) == [k |-> "num", v |-> v]
NaN == [k |-> "nan", v |-> 0]
NumStr(v) == [k |-> "numstr", v |-> v]
Str == [k |-> "str", v |-> 0]

\* isinstance(value, (int, float))
IsNumber(e) == e.k \in {"num", "nan"}

\* q == 0 and q <= n raise TypeError on a non-number.
RaisesTypeError(e) == ~IsNumber(e)

\* discretize_queue with a plausible fault: the first boundary is exclusive.
discretize_queue_strict(q) ==
    IF q.k = "num" /\ q.v = 0 THEN 0
    ELSE IF q.k = "num" /\ q.v < 3 * Scale THEN 1
    ELSE IF q.k = "num" /\ q.v <= 6 * Scale THEN 2
    ELSE IF q.k = "num" /\ q.v <= 10 * Scale THEN 3
    ELSE 4

\* train_qlearn.py discretize_queue: every comparison with NaN is False.
discretize_queue(q) ==
    IF q.k = "num" /\ q.v = 0 THEN 0
    ELSE IF q.k = "num" /\ q.v <= 3 * Scale THEN 1
    ELSE IF q.k = "num" /\ q.v <= 6 * Scale THEN 2
    ELSE IF q.k = "num" /\ q.v <= 10 * Scale THEN 3
    ELSE 4

\* train_qlearn_v2.py discretize_queue
discretize_queue_v2(q) ==
    IF q.k = "num" /\ q.v = 0 THEN 0
    ELSE IF q.k = "num" /\ q.v <= 3 * Scale THEN 1
    ELSE IF q.k = "num" /\ q.v <= 6 * Scale THEN 2
    ELSE IF q.k = "num" /\ q.v <= 10 * Scale THEN 3
    ELSE 4

\* agent_discretize_queue with a plausible fault: the runtime bins drift from training.
agent_discretize_queue_drift(q) ==
    IF q.k = "num" /\ q.v = 0 THEN 0
    ELSE IF q.k = "num" /\ q.v <= 3 * Scale THEN 1
    ELSE IF q.k = "num" /\ q.v <= 5 * Scale THEN 2
    ELSE IF q.k = "num" /\ q.v <= 10 * Scale THEN 3
    ELSE 4

\* IntersectionAgent.discretize_queue
agent_discretize_queue(q) ==
    IF q.k = "num" /\ q.v = 0 THEN 0
    ELSE IF q.k = "num" /\ q.v <= 3 * Scale THEN 1
    ELSE IF q.k = "num" /\ q.v <= 6 * Scale THEN 2
    ELSE IF q.k = "num" /\ q.v <= 10 * Scale THEN 3
    ELSE 4

\* float(obs_data): the parsed number, or a failure.
ParseFloat(e) ==
    CASE e.k = "num" -> [ok |-> TRUE, e |-> e]
      [] e.k = "nan" -> [ok |-> TRUE, e |-> e]
      [] e.k = "numstr" -> [ok |-> TRUE, e |-> Num(e.v)]
      [] OTHER -> [ok |-> FALSE, e |-> e]

\* The values of a mapping, in iteration order: numbers are appended, nested
\* sequences are extended, anything else is skipped.
RECURSIVE FlattenValues(_)
FlattenValues(items) ==
    IF items = <<>> THEN <<>>
    ELSE LET value == Head(items)
             got == IF value.nested THEN value.elems
                    ELSE IF IsNumber(value.elems[1]) THEN value.elems
                    ELSE <<>>
         IN  got \o FlattenValues(Tail(items))

\* extract_queue_lengths (identical in train_qlearn.py and train_qlearn_v2.py)
extract_queue_lengths(obs_data) ==
    CASE obs_data.shape = "list" -> obs_data.items
      [] obs_data.shape = "dict" -> FlattenValues(obs_data.items)
      [] OTHER -> LET f == ParseFloat(obs_data.items[1])
                  IN  IF f.ok THEN <<f.e>> ELSE <<>>

\* PadRaw with a plausible fault: the loop stops one short.
RECURSIVE PadRawShort(_)
PadRawShort(queue_lengths) ==
    IF Len(queue_lengths) < 3 THEN PadRawShort(Append(queue_lengths, Num(0)))
    ELSE queue_lengths

\* while len(queue_lengths) < 4: queue_lengths.append(0)
RECURSIVE PadRaw(_)
PadRaw(queue_lengths) ==
    IF Len(queue_lengths) < 4 THEN PadRaw(Append(queue_lengths, Num(0)))
    ELSE queue_lengths

\* The same loop at runtime, over buckets.
RECURSIVE PadBuckets(_)
PadBuckets(queue_lengths) ==
    IF Len(queue_lengths) < 4 THEN PadBuckets(Append(queue_lengths, 0))
    ELSE queue_lengths

\* First4 with a plausible fault: queue_lengths[-4:]
Last4(queue_lengths) ==
    SubSeq(queue_lengths,
           IF Len(queue_lengths) < 4 THEN 1 ELSE Len(queue_lengths) - 3,
           Len(queue_lengths))

\* queue_lengths[:4]
First4(queue_lengths) ==
    SubSeq(queue_lengths, 1, IF Len(queue_lengths) < 4 THEN Len(queue_lengths) ELSE 4)

\* What an encoder call gives its caller: a state, or an exception.
Return(state) == [raised |-> FALSE, state |-> state]
Raise == [raised |-> TRUE, state |-> <<>>]

\* train_qlearn.py get_state_from_obs(obs, tls_id), obs_data being obs[tls_id]
\* (shape "absent": tls_id is not in obs).
get_state_from_obs(obs_data) ==
    IF obs_data.shape = "absent" THEN Return(<<0, 0, 0, 0>>)
    ELSE LET queue_lengths == First4(PadRaw(extract_queue_lengths(obs_data)))
         IN  IF \E i \in 1..Len(queue_lengths) : RaisesTypeError(queue_lengths[i])
             THEN Raise
             ELSE Return([i \in 1..Len(queue_lengths) |->
                             discretize_queue(queue_lengths[i])])

\* train_qlearn_v2.py get_state_from_obs
get_state_from_obs_v2(obs_data) ==
    IF obs_data.shape = "absent" THEN Return(<<0, 0, 0, 0>>)
    ELSE LET queue_lengths == First4(PadRaw(extract_queue_lengths(obs_data)))
         IN  IF \E i \in 1..Len(queue_lengths) : RaisesTypeError(queue_lengths[i])
             THEN Raise
             ELSE Return([i \in 1..Len(queue_lengths) |->
                             discretize_queue_v2(queue_lengths[i])])

\* sorted(set(controlled_lanes))
RECURSIVE SortedSet(_)
SortedSet(S) ==
    IF S = {} THEN <<>>
    ELSE LET m == CHOOSE x \in S : \A y \in S : x <= y
         IN  <<m>> \o SortedSet(S \ {m})

\* IntersectionAgent.get_state: controlled_lanes as getControlledLanes gives
\* them (one entry per link, so with repeats), halting[lane] the reading
\* getLastStepHaltingNumber gives, fail the simulator call that raises
\* (0: none; -1: getControlledLanes; k > 0: the read of the k-th unique lane).
get_state(controlled_lanes, halting, fail) ==
    IF fail = -1 THEN Return(<<0, 0, 0, 0>>)
    ELSE LET unique_lanes ==
                 SortedSet({controlled_lanes[i] : i \in 1..Len(controlled_lanes)})
             n == Len(unique_lanes)
         IN  IF \/ fail \in 1..n
                \/ \E i \in 1..n : RaisesTypeError(halting[unique_lanes[i]])
             THEN Return(<<0, 0, 0, 0>>)
             ELSE Return(First4(PadBuckets(
                      [i \in 1..n |-> agent_discretize_queue(halting[unique_lanes[i]])])))

\* ---- observations built from the readings
ListObs(r) == [shape |-> "list", items |-> r]
ScalarObs(r) == [shape |-> "scalar", items |-> r]
AbsentObs == [shape |-> "absent", items |-> <<>>]
\* A mapping whose first split values are scalars and whose last value is
\* the sequence of the remaining readings.
DictObs(r, split) ==
    [shape |-> "dict",
     items |-> [i \in 1..split |-> [nested |-> FALSE, elems |-> <<r[i]>>]]
               \o (IF split < Len(r)
                   THEN << [nested |-> TRUE, elems |-> SubSeq(r, split + 1, Len(r))] >>
                   ELSE <<>>)]

MakeObs(shape, split) ==
    CASE shape = "list" -> ListObs(readings)
      [] shape = "dict" -> DictObs(readings, split)
      [] shape = "scalar" -> ScalarObs(readings)
      [] OTHER -> AbsentObs

\* Lane k carries readings[k]; the simulator lists every lane twice, the
\* first time round in descending order.
ControlledLanes ==
    [i \in 1..(2 * Len(readings)) |->
        IF i <= Len(readings) THEN Len(readings) + 1 - i ELSE i - Len(readings)]

Shapes == {"list", "dict", "scalar", "absent"}

ShapeFits(shape, split) ==
    /\ shape = "scalar" => Len(readings) = 1
    /\ split \in 0..Len(readings)
    /\ shape # "dict" => split = 0

Encoded(who, shape, split, fail, result) ==
    [who |-> who, shape |-> shape, split |-> split, fail |-> fail,
     raised |-> result.raised, state |-> result.state]

NoEnc == [who |-> "none", shape |-> "none", split |-> 0, fail |-> 0,
          raised |-> FALSE, state |-> <<>>]

\* A training step encodes the observation (train_qlearn.py).
EncodeTraining(shape, split) ==
    /\ ShapeFits(shape, split)
    /\ enc' = Encoded("train", shape, split, 0,
                      get_state_from_obs(MakeObs(shape, split)))
    /\ UNCHANGED <<runVars,
                   simVars, ctlVars, last, readings, polVars, trainVars, call>>

\* A training step encodes the observation (train_qlearn_v2.py).
EncodeTrainingV2(shape, split) ==
    /\ ShapeFits(shape, split)
    /\ enc' = Encoded("train_v2", shape, split, 0,
                      get_state_from_obs_v2(MakeObs(shape, split)))
    /\ UNCHANGED <<runVars,
                   simVars, ctlVars, last, readings, polVars, trainVars, call>>

\* The running agent encodes what the simulator reports for its lanes.
EncodeRuntime(fail) ==
    /\ fail \in -1..Len(readings)
    /\ enc' = Encoded("runtime", "lanes", 0, fail,
                      get_state(ControlledLanes, readings, fail))
    /\ UNCHANGED <<runVars,
                   simVars, ctlVars, last, readings, polVars, trainVars, call>>

\* ---- inputs
SampleElements == {Num(-1), Num(0), Num(6 * Scale + 1), Str}
AllElements ==
    {Num(v) : v \in (0 - Scale)..(MaxReading * Scale)}
        \cup {NaN, Str, NumStr(0), NumStr(4 * Scale)}
Observations ==
    UNION {[1..n -> SampleElements] : n \in 0..MaxLanes}
        \cup {<<e>> : e \in AllElements}

\* ---- the update rule and the training selection applied to a table
\* tls_ids: the fallback list starts with these two.
TlsIds == <<"J7", "J9">>
TlsSet == {TlsIds[i] : i \in 1..Len(TlsIds)}

TrainStates == {ZeroState, <<1, 0, 0, 0>>}

\* Inputs of the pure operations: learning rates, rewards, epsilons, draws.
Alphas == {Rat(0, 1), alpha}
Rewards == {-Unit, 0, Unit \div 2}
Epsilons == {0, Unit \div 2}
Draws == {0, Unit - 1}

\* One application of the update rule to the first intersection's table.
QUpdate(state, action, reward, next_state, al) ==
    /\ call.n < MaxOps
    /\ Q_tables' = [Q_tables EXCEPT ![TlsIds[1]] =
                       update(@, state, action, reward, next_state, al, gamma)]
    /\ call' = Call("update", call.n + 1, state, action, reward, next_state,
                    al, 0, 0, FALSE)
    /\ UNCHANGED <<runVars,
                   simVars, ctlVars, last, encVars, polVars, states, actions,
                   pc, episodes, episode, step_count, done, epsilon,
                   epsilon_decay, ticks>>

\* One epsilon-greedy selection on the first intersection's table.
QSelect(state, eps, draw, coin) ==
    /\ call.n < MaxOps
    /\ LET r == select(Q_tables[TlsIds[1]], state, eps, draw, coin)
       IN  /\ Q_tables' = [Q_tables EXCEPT ![TlsIds[1]] = r.table]
           /\ call' = Call("select", call.n + 1, state, r.action, 0, <<>>,
                           Rat(0, 1), eps, draw, r.explored)
    /\ UNCHANGED <<runVars,
                   simVars, ctlVars, last, encVars, polVars, states, actions,
                   pc, episodes, episode, step_count, done, epsilon,
                   epsilon_decay, ticks>>

\* ---- the persisted tables (models/q_tables.pkl)
\* What a reader finds at the path: no file, bytes that do not unpickle, or
\* a pickled mapping, its items in dict order.
File(kind, data) == [kind |-> kind, data |-> data]
NoFile == File("absent", <<>>)
Garbage == File("corrupt", <<>>)
Saved(tls, table) == [tls_id |-> tls, table |-> table]

\* dict(q_table): a plain dict with the same items in the same order.
dict(table) == [i \in 1..Len(table) |-> Entry(table[i].state, table[i].q)]

\* q_tables_to_save, pickled: one item per intersection, in the order of
\* Q_tables.
dump(Q) ==
    File("mapping",
         [i \in 1..Len(TlsIds) |-> Saved(TlsIds[i], dict(Q[TlsIds[i]]))])

\* ---- the training loop (train_q_learning)
\* max_steps, the step cap of one episode (1800 in the source), scaled down.
max_steps == MaxSteps

TrainDraws == {0, Unit - 1}
TrainRewards == {-Unit}
ResetOutcomes == {"ok", "reset_error", "encoder_error"}
\* The states right after env.reset(): the same at every intersection.
ResetStates == {[t \in TlsSet |-> st] : st \in TrainStates}

\* epsilon = max(epsilon_min, epsilon * epsilon_decay) without the floor.
decay_unfloored(eps, rate) == (eps * rate) \div 1000

\* epsilon = max(epsilon_min, epsilon * epsilon_decay)
decay(eps, rate) ==
    LET x == (eps * rate) \div 1000
    IN  IF epsilon_min >= x THEN epsilon_min ELSE x

\* The decay rate after the checkpoint test of the episode that just ran.
checkpoint(ep, rate) ==
    IF ep = 300 THEN 997
    ELSE IF ep = 400 THEN 996
    ELSE IF ep = 500 THEN 995
    ELSE rate

\* LoopTest with a plausible fault: the step cap is not tested.
LoopTest_nocap(d, n) == IF ~d THEN "select" ELSE "decay"

\* while not done and step_count < max_steps
LoopTest(d, n) == IF ~d /\ n < max_steps THEN "select" ELSE "decay"

\* ResetEpisode with a plausible fault: the tables are rebuilt every episode.
ResetEpisodeFreshTables(outcome, obs_states) ==
    /\ pc = "reset"
    /\ episode < episodes
    /\ Q_tables' = [t \in TlsSet |-> <<>>]
    /\ states' = obs_states
    /\ pc' = "select"
    /\ UNCHANGED <<runVars, simVars, ctlVars, last, encVars, polVars, actions,
                   episodes, episode, step_count, done, epsilon,
                   epsilon_decay, ticks, call>>

\* The head of one episode: env.reset(), then the initial states of all
\* intersections. A failed reset leaves the episode loop; an exception of the
\* encoder is not caught and ends train_q_learning.
ResetEpisode(outcome, obs_states) ==
    /\ pc = "reset"
    /\ episode < episodes
    /\ CASE outcome = "reset_error" ->
              /\ pc' = "close"
              /\ UNCHANGED <<done, step_count, states>>
         [] outcome = "encoder_error" ->
              /\ pc' = "crashed"
              /\ done' = FALSE
              /\ step_count' = 0
              /\ UNCHANGED states
         [] outcome = "ok" ->
              /\ done' = FALSE
              /\ step_count' = 0
              /\ states' = obs_states
              /\ pc' = LoopTest(FALSE, 0)
    /\ UNCHANGED <<runVars, simVars, ctlVars, last, encVars, polVars, Q_tables,
                   actions, episodes, episode, epsilon, epsilon_decay, ticks,
                   call>>

\* for episode in range(episodes) is exhausted.
EpisodesExhausted ==
    /\ pc = "reset"
    /\ ~(episode < episodes)
    /\ pc' = "close"
    /\ UNCHANGED <<runVars,
                   simVars, ctlVars, last, encVars, polVars, Q_tables, states,
                   actions, episodes, episode, step_count, done, epsilon,
                   epsilon_decay, ticks, call>>

\* The first half of a tick: an action for every intersection.
SelectActions(draws, coins) ==
    /\ pc = "select"
    /\ LET r == [t \in TlsSet |->
                   select(Q_tables[t], states[t], epsilon, draws[t], coins[t])]
       IN  /\ actions' = [t \in TlsSet |-> r[t].action]
           /\ Q_tables' = [t \in TlsSet |-> r[t].table]
    /\ pc' = "step"
    /\ UNCHANGED <<runVars,
                   simVars, ctlVars, last, encVars, polVars, states, episodes,
                   episode, step_count, done, epsilon, epsilon_decay, ticks,
                   call>>

\* env.step(actions) raises or returns fewer than 3 values: break.
StepFails ==
    /\ pc = "step"
    /\ pc' = "decay"
    /\ UNCHANGED <<runVars,
                   simVars, ctlVars, last, encVars, polVars, Q_tables, states,
                   actions, episodes, episode, step_count, done, epsilon,
                   epsilon_decay, ticks, call>>

\* StepAndUpdate with a plausible fault: the update is keyed on the state
\* observed after the step.
StepAndUpdateLate(dones, next_states, rewards, crashAt) ==
    /\ pc = "step"
    /\ ticks < MaxTicks
    /\ ticks' = ticks + 1
    /\ done' = dones
    /\ LET reached(t) == \E i \in 1..Len(TlsIds) :
                            TlsIds[i] = t /\ (crashAt = 0 \/ i < crashAt)
       IN  /\ Q_tables' = [t \in TlsSet |->
                  IF reached(t)
                  THEN update(Q_tables[t], next_states[t], actions[t],
                              rewards[t], next_states[t], alpha, gamma)
                  ELSE Q_tables[t]]
           /\ states' = [t \in TlsSet |->
                  IF reached(t) THEN next_states[t] ELSE states[t]]
    /\ IF crashAt = 0
       THEN /\ step_count' = step_count + 1
            /\ pc' = LoopTest(dones, step_count + 1)
       ELSE /\ step_count' = step_count
            /\ pc' = "crashed"
    /\ UNCHANGED <<runVars,
                   simVars, ctlVars, last, encVars, polVars, actions, episodes,
                   episode, epsilon, epsilon_decay, call>>

\* env.step(actions) succeeds; every intersection's table is updated in the
\* order of tls_ids. crashAt = k > 0: the encoder raises on the k-th
\* intersection's next observation, which ends train_q_learning there.
StepAndUpdate(dones, next_states, rewards, crashAt) ==
    /\ pc = "step"
    /\ ticks < MaxTicks
    /\ ticks' = ticks + 1
    /\ done' = dones
    /\ LET reached(t) == \E i \in 1..Len(TlsIds) :
                            TlsIds[i] = t /\ (crashAt = 0 \/ i < crashAt)
       IN  /\ Q_tables' = [t \in TlsSet |->
                  IF reached(t)
                  THEN update(Q_tables[t], states[t], actions[t], rewards[t],
                              next_states[t], alpha, gamma)
                  ELSE Q_tables[t]]
           /\ states' = [t \in TlsSet |->
                  IF reached(t) THEN next_states[t] ELSE states[t]]
    /\ IF crashAt = 0
       THEN /\ step_count' = step_count + 1
            /\ pc' = LoopTest(dones, step_count + 1)
       ELSE /\ step_count' = step_count
            /\ pc' = "crashed"
    /\ UNCHANGED <<runVars,
                   simVars, ctlVars, last, encVars, polVars, actions, episodes,
                   episode, epsilon, epsilon_decay, call>>

\* The tail of one episode: epsilon decays, the rate changes at checkpoints.
DecayEpsilon ==
    /\ pc = "decay"
    /\ epsilon' = decay(epsilon, epsilon_decay)
    /\ epsilon_decay' = checkpoint(episode, epsilon_decay)
    /\ episode' = episode + 1
    /\ pc' = "reset"
    /\ UNCHANGED <<runVars,
                   simVars, ctlVars, last, encVars, polVars, Q_tables, states,
                   actions, episodes, step_count, done, ticks, call>>

\* After the episode loop: env.close(), then the tables are pickled into
\* models/q_tables.pkl.
CloseAndSave ==
    /\ pc = "close"
    /\ conn' = "closed"
    /\ artifact' = dump(Q_tables)
    /\ pc' = "saved"
    /\ UNCHANGED <<simVars, ctlVars, last, encVars, polVars, Q_tables, states,
                   actions, episodes, episode, step_count, done, epsilon,
                   epsilon_decay, ticks, call, session, tls_id, aggVars, rew,
                   tally>>

\* os.makedirs, open or pickle.dump raises, which ends train_q_learning.
\* truncated: the file was already opened for writing.
SaveFails(truncated) ==
    /\ pc = "close"
    /\ conn' = "closed"
    /\ artifact' = IF truncated THEN Garbage ELSE artifact
    /\ pc' = "crashed"
    /\ UNCHANGED <<simVars, ctlVars, last, encVars, polVars, Q_tables, states,
                   actions, episodes, episode, step_count, done, epsilon,
                   epsilon_decay, ticks, call, session, tls_id, aggVars, rew,
                   tally>>

\* ---- the runtime session (run_sim.main, IntersectionAgent.setup)
\* load_q_table with a plausible fault: the first table of the file is
\* taken, whose ever it is.
load_q_table_first(file, tls) ==
    IF file.kind # "mapping" \/ file.data = <<>> THEN <<>>
    ELSE file.data[1].table

\* IntersectionAgent.load_q_table: self.q_table after the call. A file that
\* cannot be opened or unpickled and a mapping without the identifier both
\* leave the empty dict.
load_q_table(file, tls) ==
    IF file.kind # "mapping" THEN <<>>
    ELSE IF \E i \in 1..Len(file.data) : file.data[i].tls_id = tls
    THEN LET i == CHOOSE j \in 1..Len(file.data) : file.data[j].tls_id = tls
         IN  file.data[i].table
    ELSE <<>>

\* The identifiers traci.trafficlight.getIDList() may report at runtime: the
\* trained ones and one that training never saw.
RuntimeIds == TlsSet \cup {"J11"}
NoId == ""

\* main() up to the creation of the agents. exists is what
\* os.path.exists("models/q_tables.pkl") returns for the working directory;
\* without the file main() prints an error and returns.
Main(exists, tls) ==
    /\ session = "off"
    /\ IF exists
       THEN /\ session' = "starting"
            /\ tls_id' = tls
            /\ conn' = "open"
       ELSE /\ session' = "refused"
            /\ tls_id' = tls_id
            /\ conn' = conn
    /\ UNCHANGED <<simVars, ctlVars, last, encVars, polVars, trainVars, call,
                   artifact, aggVars, rew, tally>>

VerifyOutcomes == {"ok", "error", "stuck"}

\* IntersectionAgent.setup(): the table is loaded, control of the signal is
\* tried (the phase two further is set, then the old one again) and the two
\* behaviours are added. No simulated time passes meanwhile. verify = "error":
\* a simulator call fails before the test command; "stuck": one fails after
\* it, which leaves the test phase set.
Setup(verify) ==
    /\ session = "starting"
    /\ q_table' = load_q_table(artifact, tls_id)
    /\ LET n == Len(ActivePhases)
           test_phase == (simPhase + 2) % n
       IN  IF verify = "error" \/ n <= 1 \/ test_phase = simPhase
           THEN UNCHANGED <<simPhase, phaseEntered>>
           ELSE /\ simPhase' = IF verify = "stuck" THEN test_phase
                               ELSE simPhase
                /\ phaseEntered' = simTime
    /\ session' = "running"
    /\ UNCHANGED <<simTime, config, ctlVars, last, encVars, trainVars, call,
                   artifact, tls_id, aggVars, rew, endVars>>

\* The files a runtime session may find.
StartFiles ==
    {NoFile, Garbage,
     File("mapping", <<Saved("J9", <<Entry(ZeroState, <<0, Unit>>)>>)>>),
     File("mapping",
          <<Saved("J7", <<Entry(<<0, 1, 1, 1>>, <<0, Unit \div 2>>),
                          Entry(<<1, 1, 1, 0>>, <<Unit \div 2, 0>>)>>)>>)}

\* ---- statistics reports (StatsReportingBehaviour) and their aggregation
\* ---- (ReceiveStatsBehaviour)
\* A message body is a string, kept as the sequence of its pieces: the two
\* delimiters "|" and ":" and the text between them.
RECURSIVE Join(_)
Join(pieces) == IF pieces = <<>> THEN "" ELSE Head(pieces) \o Join(Tail(pieces))

\* str.split(sep): the pieces between the separators, one piece at least.
RECURSIVE Split(_, _)
Split(s, sep) ==
    IF \A i \in 1..Len(s) : s[i] # sep THEN <<s>>
    ELSE LET i == CHOOSE j \in 1..Len(s) :
                     s[j] = sep /\ \A k \in 1..(j - 1) : s[k] # sep
         IN  <<SubSeq(s, 1, i - 1)>> \o Split(SubSeq(s, i + 1, Len(s)), sep)

\* f"{total_waiting:.2f}" of a waiting time of w / Scale seconds: the number
\* of hundredths, rounded, and its text.
Hundredths(w) == (200 * w + Scale) \div (2 * Scale)
TwoDigits(n) == IF n < 10 THEN "0" \o ToString(n) ELSE ToString(n)
Fixed2(h) == ToString(h \div 100) \o "." \o TwoDigits(h % 100)

\* msg.body = f"{self.agent.tls_id}|queue:{total_queue}|waiting:{total_waiting:.2f}"
Body(tls, total_queue, total_waiting) ==
    <<tls, "|", "queue", ":", ToString(total_queue),
      "|", "waiting", ":", Fixed2(Hundredths(total_waiting))>>

\* The waiting times the lanes report, in 1/Scale seconds.
WaitingValues == 0..(2 * Scale)
\* float(value), in hundredths, of the texts the reports can hold; any
\* other text raises ValueError (None here).
float(value) ==
    IF \E n \in 0..(MaxReports + 1) : ToString(n) = value
    THEN 100 * (CHOOSE n \in 0..(MaxReports + 1) : ToString(n) = value)
    ELSE IF \E w \in WaitingValues : Fixed2(Hundredths(w)) = value
    THEN Hundredths(CHOOSE w \in WaitingValues :
                        Fixed2(Hundredths(w)) = value)
    ELSE None

\* stats after the loop over parts[1:], from part i on; not ok when
\* key, value = part.split(':') or float(value) raises.
Parsed(ok, stats) == [ok |-> ok, stats |-> stats]
RECURSIVE ParseStats(_, _, _)
ParseStats(parts, i, stats) ==
    IF i > Len(parts) THEN Parsed(TRUE, stats)
    ELSE LET kv == Split(parts[i], ":")
         IN  IF Len(kv) # 2 \/ float(Join(kv[2])) = None
             THEN Parsed(FALSE, stats)
             ELSE ParseStats(parts, i + 1,
                      [k \in DOMAIN stats \cup {Join(kv[1])} |->
                          IF k = Join(kv[1]) THEN float(Join(kv[2]))
                          ELSE stats[k]])

\* The coordinator's store: self.agent.statistics, a dict by identifier.
NoStatistics == [t \in {} |-> 0]
History(queue_history, waiting_history, last_update) ==
    [queue_history |-> queue_history, waiting_history |-> waiting_history,
     last_update |-> last_update]
Put(store, tls, h) ==
    [t \in DOMAIN store \cup {tls} |-> IF t = tls THEN h ELSE store[t]]

\* The window of the histories.
HistoryWindow == 100

\* Lines 71-74: beyond 100 queue values, both histories lose their oldest.
Trim(h) ==
    IF Len(h.queue_history) > HistoryWindow
    THEN History(Tail(h.queue_history), Tail(h.waiting_history),
                 h.last_update)
    ELSE h

\* What one run of ReceiveStatsBehaviour.run() did.
Receipt(n, errors, outcome, body) ==
    [n |-> n, errors |-> errors, outcome |-> outcome, body |-> body]
NoReceipt == Receipt(0, 0, "none", <<>>)

\* The try block of ReceiveStatsBehaviour.run() on one message: the store
\* when the block is left, by its end or by an exception. now is
\* datetime.now().
Processed(store, body, now) ==
    LET parts == Split(body, "|")
        tls == Join(parts[1])
        parsed == ParseStats(parts, 2, NoStatistics)
        stats == parsed.stats
    IN  IF ~parsed.ok THEN [store |-> store, outcome |-> "error"]
        ELSE LET s1 == IF tls \in DOMAIN store THEN store
                       ELSE Put(store, tls, History(<<>>, <<>>, now))
                 h1 == s1[tls]
             IN  IF "queue" \notin DOMAIN stats
                 THEN [store |-> s1, outcome |-> "error"]
                 ELSE LET h2 == History(Append(h1.queue_history,
                                               stats["queue"]),
                                        h1.waiting_history, h1.last_update)
                      IN  IF "waiting" \notin DOMAIN stats
                          THEN [store |-> Put(s1, tls, h2),
                                outcome |-> "error"]
                          ELSE [store |-> Put(s1, tls,
                                    Trim(History(h2.queue_history,
                                             Append(h2.waiting_history,
                                                    stats["waiting"]),
                                             now))),
                                outcome |-> "stored"]

\* One run of ReceiveStatsBehaviour.run() that finds a message.
Receive ==
    /\ inbox # <<>>
    /\ LET r == Processed(statistics, Head(inbox), received.n + 1)
       IN  /\ statistics' = r.store
           /\ received' = Receipt(received.n + 1,
                                  IF r.outcome = "error"
                                  THEN received.errors + 1
                                  ELSE received.errors,
                                  r.outcome, Head(inbox))
    /\ inbox' = Tail(inbox)
    /\ UNCHANGED <<simVars, ctlVars, last, encVars, polVars, trainVars, call,
                   startVars, reports, rew,
                   endVars>>

\* One run of ReceiveStatsBehaviour.run() that times out: msg is None.
ReceiveTimeout ==
    /\ inbox = <<>>
    /\ received.outcome # "timeout"
    /\ received' = Receipt(received.n, received.errors, "timeout", <<>>)
    /\ UNCHANGED <<simVars, ctlVars, last, encVars, polVars, trainVars, call,
                   startVars, statistics, inbox, reports, rew,
                   endVars>>

\* StatsReport with a plausible fault: the report restarts the decision
\* interval of the controller.
StatsReportHolding(fail, total_queue, total_waiting) ==
    /\ session = "running"
    /\ reports' = reports + 1
    /\ inbox' = IF fail THEN inbox
                ELSE Append(inbox, Body(tls_id, total_queue, total_waiting))
    /\ last_decision_time' = simTime
    /\ UNCHANGED <<simVars, last_phase, phase_start_time, time_in_phase,
                   current_phase, last, encVars, polVars, trainVars, call,
                   startVars, statistics, received, rew,
                   endVars>>

\* One run of StatsReportingBehaviour.run(): the lanes are read, the message
\* is built and handed to the transport. fail: a simulator read raises, which
\* is reported and sends nothing.
StatsReport(fail, total_queue, total_waiting) ==
    /\ session = "running"
    /\ reports' = reports + 1
    /\ inbox' = IF fail THEN inbox
                ELSE Append(inbox, Body(tls_id, total_queue, total_waiting))
    /\ UNCHANGED <<simVars, ctlVars, last, encVars, polVars, trainVars, call,
                   startVars, statistics, received, rew,
                   endVars>>

\* The transport loses the oldest message in flight.
Lose ==
    /\ inbox # <<>>
    /\ inbox' = Tail(inbox)
    /\ UNCHANGED <<simVars, ctlVars, last, encVars, polVars, trainVars, call,
                   startVars, statistics, received, reports, rew,
                   endVars>>

\* Bodies that do not follow "TLS_ID|queue:X|waiting:Y".
Malformed ==
    {<<"J7", "|", "queue", ":", "5">>,
     <<"J7", "|", "waiting", ":", "1.00">>,
     <<"J9", "|", "waiting", ":", "1.00">>,
     <<"J7", "|", "queue", "5", "|", "waiting", ":", "1.00">>,
     <<"J7", "|", "queue", ":", "many", "|", "waiting", ":", "1.00">>,
     <<"J7", "|", "queue", ":", "5", ":", "6", "|", "waiting", ":", "1.00">>,
     <<"J7", "|", "|", "queue", ":", "5", "|", "waiting", ":", "1.00">>,
     <<>>}

\* The malformed messages so far, received or in flight.
Strays ==
    received.errors + Cardinality({i \in 1..Len(inbox) : inbox[i] \in Malformed})

\* Some sender hands a malformed message to the transport.
SendMalformed(body) ==
    /\ inbox' = Append(inbox, body)
    /\ UNCHANGED <<simVars, ctlVars, last, encVars, polVars, trainVars, call,
                   startVars, statistics, received, reports, rew,
                   endVars>>

\* ---- the reward (calculate_reward, calculate_enhanced_reward)
\* A metrics snapshot: seconds of waiting and vehicles passed; None stands
\* for a key the dict does not hold.
Metrics(total_waiting_time, vehicles_passed) ==
    [total_waiting_time |-> total_waiting_time,
     vehicles_passed |-> vehicles_passed]
\* metrics.get(key, 0)
get(value) == IF value = None THEN 0 ELSE value

\* What the simulator reports of one lane when the reward is computed: the
\* mean speed in m/s and the number of vehicles.
Lane(mean_speed, vehicle_count) ==
    [mean_speed |-> mean_speed, vehicle_count |-> vehicle_count]

Max0(x) == IF x > 0 THEN x ELSE 0

\* waiting_component with a plausible fault: a decrease of the waiting time
\* is credited.
waiting_component_signed(prev_metrics, current_metrics) ==
    LET current_waiting == get(current_metrics.total_waiting_time)
        prev_waiting == get(prev_metrics.total_waiting_time)
        waiting_increase == current_waiting - prev_waiting
    IN  0 - (4 * (waiting_increase * (Unit \div 10)
                  + current_waiting * (Unit \div 1000))) \div 10

\* waiting_component = -WAITING_WEIGHT * (waiting_increase / 10.0
\*                                        + absolute_waiting * 0.1)
waiting_component(prev_metrics, current_metrics) ==
    LET current_waiting == get(current_metrics.total_waiting_time)
        prev_waiting == get(prev_metrics.total_waiting_time)
        waiting_increase == Max0(current_waiting - prev_waiting)
    IN  0 - (4 * (waiting_increase * (Unit \div 10)
                  + current_waiting * (Unit \div 1000))) \div 10

\* total_flow_score over the lanes from lane i on.
RECURSIVE total_flow_score(_, _)
total_flow_score(lanes, i) ==
    IF i > Len(lanes) THEN 0
    ELSE LET l == lanes[i]
             capped == IF l.vehicle_count < 5 THEN l.vehicle_count ELSE 5
             flow_score == (l.mean_speed * capped * Unit) \div 5
         IN  (IF l.vehicle_count > 0 THEN Max0(flow_score) ELSE 0)
                 + total_flow_score(lanes, i + 1)

\* efficiency_component: from the lanes the simulator reports at the time
\* of the call; from the vehicles passed when a simulator call raises.
efficiency_component(prev_metrics, current_metrics, lanes, fail) ==
    IF fail
    THEN LET vehicles_delta == Max0(get(current_metrics.vehicles_passed)
                                    - get(prev_metrics.vehicles_passed))
         IN  (3 * vehicles_delta * Unit) \div 100
    ELSE IF lanes = <<>> THEN 0
    ELSE (3 * (total_flow_score(lanes, 1) \div Len(lanes))) \div 100

\* calculate_reward; lanes and fail are what the simulator answers during
\* the call. action_taken is not used.
calculate_reward(tls, prev_metrics, current_metrics, action_taken, basic_reward, lanes, fail) ==
    basic_reward + waiting_component(prev_metrics, current_metrics)
        + efficiency_component(prev_metrics, current_metrics, lanes, fail)

\* One reward computation: its arguments, what the simulator answered and
\* the result; before is the result of the computation before it when that
\* one had the same arguments.
Reward(args, lanes, fail, waiting, efficiency, value, same, before) ==
    [args |-> args, lanes |-> lanes, fail |-> fail, waiting |-> waiting,
     efficiency |-> efficiency, value |-> value, same |-> same,
     before |-> before]
Args(tls, prev_metrics, current_metrics, action_taken, basic_reward) ==
    [tls |-> tls, prev_metrics |-> prev_metrics,
     current_metrics |-> current_metrics, action_taken |-> action_taken,
     basic_reward |-> basic_reward]
NoArgs == Args(NoId, Metrics(None, None), Metrics(None, None), None, 0)
NoReward == Reward(NoArgs, <<>>, FALSE, 0, 0, 0, FALSE, 0)

\* Inputs of the reward.
BasicRewards == {-2 * Unit, 0}
LaneReports ==
    {<<>>, <<Lane(0, 0)>>, <<Lane(10, 2)>>, <<Lane(10, 7), Lane(0, 3)>>}
MetricsBefore == {Metrics(None, None), Metrics(50, 0), Metrics(80, 4)}
MetricsNow == {Metrics(0, 0), Metrics(50, 4), Metrics(80, 4)}
TallyLanes == {<<>>, <<Lane(10, 2)>>}

\* One call of calculate_reward.
ComputeReward(tls, prev_metrics, current_metrics, action_taken, basic_reward, lanes, fail) ==
    /\ LET args == Args(tls, prev_metrics, current_metrics, action_taken,
                        basic_reward)
       IN  rew' = Reward(args, lanes, fail,
                     waiting_component(prev_metrics, current_metrics),
                     efficiency_component(prev_metrics, current_metrics,
                                          lanes, fail),
                     calculate_reward(tls, prev_metrics, current_metrics,
                                      action_taken, basic_reward, lanes,
                                      fail),
                     args = rew.args,
                     IF args = rew.args THEN rew.value ELSE 0)
    /\ UNCHANGED <<simVars, ctlVars, last, encVars, polVars, trainVars, call,
                   startVars, aggVars,
                   endVars>>

\* ---- the end of a session
\* Ctrl+C while train_q_learning runs its episodes: KeyboardInterrupt is no
\* Exception, so neither the reset nor the step handler catches it; it ends
\* train_q_learning and is reported by __main__.
Interrupt ==
    /\ pc \in {"reset", "select", "step", "decay"}
    /\ pc' = "interrupted"
    /\ UNCHANGED <<runVars, simVars, ctlVars, last, encVars, polVars,
                   Q_tables, states, actions, episodes, episode, step_count,
                   done, epsilon, epsilon_decay, ticks, call>>

\* Why run_simulation() is left: the duration is over, SUMO has ended
\* (FatalTraCIError), the user interrupts, or another error is raised.
EndCauses == {"duration", "sumo_ended", "interrupted", "error"}

\* run_simulation() returns or raises; main() enters its finally clause.
EndRun(cause) ==
    /\ session = "running"
    /\ session' = "stopping"
    /\ last' = Idle
    /\ call' = NoCall
    /\ UNCHANGED <<simVars, ctlVars, encVars, polVars, trainVars, artifact,
                   tls_id, aggVars, rew, endVars>>

\* The finally clause of main(): await sim.stop_agents(), then
\* sim.cleanup(), which closes the connection. An exception of stop_agents()
\* leaves the clause before cleanup() is called.
Shutdown(stop_fails) ==
    /\ session = "stopping"
    /\ session' = "ended"
    /\ conn' = IF stop_fails THEN conn ELSE "closed"
    /\ UNCHANGED <<simVars, ctlVars, last, encVars, polVars, trainVars, call,
                   artifact, tls_id, aggVars, rew, tally>>

\* ---- the episode reward (train_q_learning, lines 247-290)
\* episode_reward, the sum of the rewards the updates were given, the
\* previous_metrics dict and the ticks taken.
Tally(episode_reward, applied, previous_metrics, n) ==
    [episode_reward |-> episode_reward, applied |-> applied,
     previous_metrics |-> previous_metrics, n |-> n]
NoTally == Tally(0, 0, [t \in TlsSet |-> Metrics(None, None)], 0)

\* The sum of f over the first i intersections of tls_ids.
RECURSIVE SumOver(_, _)
SumOver(f, i) == IF i = 0 THEN 0 ELSE f[TlsIds[i]] + SumOver(f, i - 1)

\* The part of one tick after env.step(): the update loop computes the
\* reward of each intersection from previous_metrics and the metrics read
\* now, and stores these as previous_metrics; the second loop reads the
\* metrics again (the simulator has not moved) and computes the reward anew
\* from what previous_metrics now holds; episode_reward takes that sum.
EpisodeTick(rewards, current_metrics, lanes) ==
    /\ tally.n < MaxTallyTicks
    /\ LET enhanced_reward == [t \in TlsSet |->
               calculate_reward(t, tally.previous_metrics[t],
                                current_metrics[t], 0, rewards[t], lanes,
                                FALSE)]
           previous_metrics == current_metrics
           tracked == [t \in TlsSet |->
               calculate_reward(t, previous_metrics[t], current_metrics[t],
                                0, rewards[t], lanes, FALSE)]
       IN  tally' = Tally(tally.episode_reward + SumOver(tracked, Len(TlsIds)),
                          tally.applied
                              + SumOver(enhanced_reward, Len(TlsIds)),
                          previous_metrics, tally.n + 1)
    /\ UNCHANGED <<simVars, ctlVars, last, encVars, polVars, trainVars, call,
                   startVars, aggVars, rew, conn>>

\* ---- the runtime policy applied to a table
\* The dicts of at most n items over the sampled keys and values, in every
\* insertion order.
RECURSIVE TablesOfLen(_)
TablesOfLen(n) ==
    IF n = 0 THEN {<<>>}
    ELSE UNION {{Append(t, Entry(k, q)) :
                    k \in PolicyKeys \ keys(t), q \in SampleValues} :
                t \in TablesOfLen(n - 1)}

PolicyTables == UNION {TablesOfLen(n) : n \in 0..MaxEntries}

\* One call of get_action on the loaded table.
Decide(state, draw) ==
    /\ LET d == get_action(q_table, state, draw)
       IN  /\ q_table' = d.q_table
           /\ call' = Asked(state, draw, d.action)
    /\ UNCHANGED <<runVars, simVars, ctlVars, last, encVars, trainVars>>

\* ------------------------------------------------------- specifications
\* The runtime policy and the training loop at rest.
PolIdle == q_table = <<>>

\* No runtime session, no report sent, no reward computed.
StartIdle == session = "off" /\ artifact = NoFile /\ tls_id = NoId
AggIdle ==
    /\ statistics = NoStatistics
    /\ inbox = <<>>
    /\ received = NoReceipt
    /\ reports = 0
RunIdle == StartIdle /\ AggIdle /\ rew = NoReward /\ tally = NoTally

\* The session of one intersection after setup() found its table.
Started ==
    /\ session = "running"
    /\ conn = "open"
    /\ tls_id = TlsIds[1]
    /\ artifact = File("mapping", <<Saved(tls_id, q_table)>>)

TrainIdle ==
    /\ Q_tables = <<>>
    /\ states = <<>>
    /\ actions = <<>>
    /\ pc = "idle"
    /\ episodes = 0
    /\ episode = 0
    /\ step_count = 0
    /\ done = FALSE
    /\ epsilon = initial_epsilon
    /\ epsilon_decay = initial_epsilon_decay
    /\ ticks = 0

CtlInit ==
    /\ simTime = 0
    /\ simPhase = 0
    /\ phaseEntered = 0
    /\ last_decision_time = 0
    /\ last_phase = None
    /\ phase_start_time = None
    /\ time_in_phase = 0
    /\ current_phase = 0
    /\ last = Idle

Init ==
    /\ CtlInit
    /\ config \in Configs
    /\ readings = <<>>
    /\ enc = NoEnc
    /\ q_table \in LoadedTables
    /\ TrainIdle
    /\ call = NoCall
    /\ Started
    /\ AggIdle
    /\ rew = NoReward
    /\ tally = NoTally

Next ==
    \/ \E fail \in FailPoints, state \in RuntimeStates, draw \in RuntimeDraws :
          Tick(fail, state, draw)
    \/ \E advance \in BOOLEAN : SimStep(advance)
    \/ \E p \in 0..(Len(ActivePhases) - 1) : ExternalSetPhase(p)

Spec == Init /\ [][Next]_vars

\* The encoders applied to every observation of the bounded set.
EncInit ==
    /\ CtlInit
    /\ config = [logics |-> <<FourPhase>>, program |-> 1]
    /\ readings \in Observations
    /\ enc = NoEnc
    /\ PolIdle
    /\ TrainIdle
    /\ call = NoCall
    /\ RunIdle
    /\ conn = "none"

EncNext ==
    \/ \E shape \in Shapes, split \in 0..MaxLanes : EncodeTraining(shape, split)
    \/ \E shape \in Shapes, split \in 0..MaxLanes : EncodeTrainingV2(shape, split)
    \/ \E fail \in -1..MaxLanes : EncodeRuntime(fail)

EncSpec == EncInit /\ [][EncNext]_vars

\* The update rule and the training selection on tables built from empty.
QInit ==
    /\ CtlInit
    /\ config = [logics |-> <<FourPhase>>, program |-> 1]
    /\ readings = <<>>
    /\ enc = NoEnc
    /\ PolIdle
    /\ Q_tables = [t \in TlsSet |-> <<>>]
    /\ states = [t \in TlsSet |-> ZeroState]
    /\ actions = [t \in TlsSet |-> None]
    /\ pc = "idle"
    /\ episodes = 0
    /\ episode = 0
    /\ step_count = 0
    /\ done = FALSE
    /\ epsilon = initial_epsilon
    /\ epsilon_decay = initial_epsilon_decay
    /\ ticks = 0
    /\ call = NoCall
    /\ RunIdle
    /\ conn = "none"

QNext ==
    \/ \E state \in TrainStates, action \in Actions, reward \in Rewards,
          next_state \in TrainStates, al \in Alphas :
          QUpdate(state, action, reward, next_state, al)
    \/ \E state \in TrainStates, eps \in Epsilons, draw \in Draws,
          coin \in Actions : QSelect(state, eps, draw, coin)

QSpec == QInit /\ [][QNext]_vars

\* train_q_learning on a short run that learns.
TrainInit ==
    /\ CtlInit
    /\ config = [logics |-> <<FourPhase>>, program |-> 1]
    /\ readings = <<>>
    /\ enc = NoEnc
    /\ PolIdle
    /\ Q_tables = [t \in TlsSet |-> <<>>]
    /\ states = [t \in TlsSet |-> ZeroState]
    /\ actions = [t \in TlsSet |-> None]
    /\ pc = "reset"
    /\ episodes = MaxEpisodes
    /\ episode = 0
    /\ step_count = 0
    /\ done = FALSE
    /\ epsilon = initial_epsilon
    /\ epsilon_decay = initial_epsilon_decay
    /\ ticks = 0
    /\ call = NoCall
    /\ RunIdle
    /\ conn = "open"

TrainNext ==
    \/ \E outcome \in ResetOutcomes, obs_states \in ResetStates :
          ResetEpisode(outcome, obs_states)
    \/ EpisodesExhausted
    \/ \E draws \in [TlsSet -> TrainDraws], coins \in [TlsSet -> Actions] :
          SelectActions(draws, coins)
    \/ StepFails
    \/ \E dones \in BOOLEAN, next_states \in [TlsSet -> TrainStates],
          rewards \in [TlsSet -> TrainRewards], crashAt \in 0..Len(TlsIds) :
          StepAndUpdate(dones, next_states, rewards, crashAt)
    \/ DecayEpsilon
    \/ CloseAndSave
    \/ \E truncated \in BOOLEAN : SaveFails(truncated)

TrainSpec == TrainInit /\ [][TrainNext]_vars

\* train_q_learning followed over a long run for its exploration schedule:
\* the runs in which every episode is cut short at its first step.
ScheduleInit ==
    /\ CtlInit
    /\ config = [logics |-> <<FourPhase>>, program |-> 1]
    /\ readings = <<>>
    /\ enc = NoEnc
    /\ PolIdle
    /\ Q_tables = [t \in TlsSet |-> <<>>]
    /\ states = [t \in TlsSet |-> ZeroState]
    /\ actions = [t \in TlsSet |-> None]
    /\ pc = "reset"
    /\ episodes = LongRun
    /\ episode = 0
    /\ step_count = 0
    /\ done = FALSE
    /\ epsilon = initial_epsilon
    /\ epsilon_decay = initial_epsilon_decay
    /\ ticks = 0
    /\ call = NoCall
    /\ RunIdle
    /\ conn = "open"

ScheduleNext ==
    \/ \E outcome \in {"ok", "reset_error"} :
          ResetEpisode(outcome, [t \in TlsSet |-> ZeroState])
    \/ EpisodesExhausted
    \/ SelectActions([t \in TlsSet |-> 0], [t \in TlsSet |-> 0])
    \/ StepFails
    \/ DecayEpsilon
    \/ CloseAndSave
    \/ \E truncated \in BOOLEAN : SaveFails(truncated)

ScheduleSpec == ScheduleInit /\ [][ScheduleNext]_vars

\* get_action on every sampled table, state and draw.
PolicyInit ==
    /\ CtlInit
    /\ config = [logics |-> <<FourPhase>>, program |-> 1]
    /\ readings = <<>>
    /\ enc = NoEnc
    /\ q_table \in PolicyTables
    /\ TrainIdle
    /\ call = NoCall
    /\ Started
    /\ AggIdle
    /\ rew = NoReward
    /\ tally = NoTally

PolicyNext ==
    \E state \in PolicyStates, draw \in PolicyDraws : Decide(state, draw)

PolicySpec == PolicyInit /\ [][PolicyNext]_vars

\* A runtime session from main() on, with every kind of file in place of
\* the persisted tables.
StartInit ==
    /\ CtlInit
    /\ config = [logics |-> <<FourPhase>>, program |-> 1]
    /\ readings = <<>>
    /\ enc = NoEnc
    /\ PolIdle
    /\ TrainIdle
    /\ call = NoCall
    /\ session = "off"
    /\ artifact \in StartFiles
    /\ tls_id = NoId
    /\ AggIdle
    /\ rew = NoReward
    /\ tally = NoTally
    /\ conn = "none"

StartNext ==
    \/ \E exists \in BOOLEAN : Main(exists, TlsIds[1])
    \/ \E verify \in VerifyOutcomes : Setup(verify)
    \/ \E fail \in {"none", "getTime"}, state \in RuntimeStates,
          draw \in RuntimeDraws :
          session = "running" /\ Tick(fail, state, draw)
    \/ \E advance \in BOOLEAN : session = "running" /\ SimStep(advance)

StartSpec == StartInit /\ [][StartNext]_vars

\* train_q_learning on a short run, then a runtime session that loads what
\* the run left at the path.
PersistInit == TrainInit

PersistNext ==
    \/ TrainNext
    \/ \E exists \in {TRUE}, tls \in RuntimeIds :
          pc \in {"saved", "crashed"} /\ Main(exists, tls)
    \/ \E verify \in {"ok"} : Setup(verify)

PersistSpec == PersistInit /\ [][PersistNext]_vars

\* The coordinator receiving the reports of one intersection, the n-th
\* report carrying n queued vehicles, and at most MaxStrays malformed
\* messages.
AggInit ==
    /\ CtlInit
    /\ config = [logics |-> <<FourPhase>>, program |-> 1]
    /\ readings = <<>>
    /\ enc = NoEnc
    /\ q_table \in LoadedTables
    /\ TrainIdle
    /\ call = NoCall
    /\ Started
    /\ AggIdle
    /\ rew = NoReward
    /\ tally = NoTally

AggNext ==
    \/ /\ reports < MaxReports
       /\ Len(inbox) < MaxInFlight
       /\ StatsReport(FALSE, reports + 1, reports % (2 * Scale + 1))
    \/ \E body \in Malformed :
          /\ Strays < MaxStrays
          /\ Len(inbox) < MaxInFlight
          /\ SendMalformed(body)
    \/ Receive
    \/ ReceiveTimeout

AggSpec == AggInit /\ [][AggNext]_vars

\* The controller of one intersection together with its statistics reports,
\* their transport and the coordinator.
ReportInit ==
    /\ CtlInit
    /\ config = [logics |-> <<FourPhase>>, program |-> 1]
    /\ readings = <<>>
    /\ enc = NoEnc
    /\ q_table \in LoadedTables
    /\ TrainIdle
    /\ call = NoCall
    /\ Started
    /\ AggIdle
    /\ rew = NoReward
    /\ tally = NoTally

ReportNext ==
    \/ \E fail \in {"none", "getTime"}, state \in RuntimeStates,
          draw \in RuntimeDraws : Tick(fail, state, draw)
    \/ \E advance \in BOOLEAN : SimStep(advance)
    \/ \E fail \in BOOLEAN, total_queue \in {3}, total_waiting \in {1} :
          /\ reports < MaxOps
          /\ Len(inbox) < MaxInFlight
          /\ StatsReport(fail, total_queue, total_waiting)
    \/ Lose
    \/ Receive

ReportSpec == ReportInit /\ [][ReportNext]_vars

\* calculate_reward on every sampled input, one call after another.
RewardInit ==
    /\ CtlInit
    /\ config = [logics |-> <<FourPhase>>, program |-> 1]
    /\ readings = <<>>
    /\ enc = NoEnc
    /\ PolIdle
    /\ TrainIdle
    /\ call = NoCall
    /\ StartIdle
    /\ AggIdle
    /\ rew = NoReward
    /\ tally = NoTally
    /\ conn = "none"

RewardNext ==
    \E prev_metrics \in MetricsBefore, current_metrics \in MetricsNow,
       basic_reward \in BasicRewards, lanes \in LaneReports,
       fail \in BOOLEAN :
       ComputeReward(TlsIds[1], prev_metrics, current_metrics, 0,
                     basic_reward, lanes, fail)

RewardSpec == RewardInit /\ [][RewardNext]_vars



\* =================================================================== claims
\* A yellow indicator in a signal-state string.
HasYellowIndicator(s) == \E i \in 1..Len(s) : s[i] \in {"y", "Y"}

\* A step on which run() sent a phase command.
CommandSent == last'.outcome # "idle" /\ last'.cmd # None

\* C1: no phase command is issued on a decision tick at which the signal
\* state string the simulator reports holds a yellow indicator ('y' or 'Y'),
\* whatever the policy's action and the time spent in the phase.
C1_NoCommandDuringYellow ==
    [][CommandSent => ~HasYellowIndicator(getRedYellowGreenState)]_vars

\* C1 witness: a tick suppressed by an upper-case yellow although the
\* minimum green had elapsed.
C1_Witness ==
    /\ last.outcome = "yellow"
    /\ \E i \in 1..Len(last.signal) : last.signal[i] = "Y"
    /\ time_in_phase >= min_green

\* C2 (as claimed): whenever a phase command is issued, at least min_green
\* simulated seconds have passed since the signal entered its current phase.
C2_MinGreenSinceEntry ==
    [][CommandSent => simTime - phaseEntered >= min_green]_vars

\* The first phase after cur, cyclically, whose state holds no yellow
\* indicator, looking at no more than Len(phases) phases; None when there is
\* none.
FirstNonYellowAfter(phases, cur) ==
    LET n == Len(phases)
        K == {k \in 1..n : ~HasYellowIndicator(phases[((cur + k) % n) + 1])}
    IN  IF K = {} THEN None
        ELSE (cur + (CHOOSE k \in K : \A j \in K : k <= j)) % n

C3_AllYellowReached == last.outcome = "no_green"

\* C4: a tick that runs to its end compares the reported phase with the
\* last-known one: on a mismatch phase_start_time is the current time,
\* time_in_phase 0 and last_phase the reported phase; on a match
\* time_in_phase is the current time minus phase_start_time; after a
\* transition phase_start_time is the current time, time_in_phase 0 and
\* last_phase the commanded phase.
C4_PhaseClock ==
    [][/\ last'.outcome \in {"yellow", "min_green", "keep", "no_green"} =>
            IF last_phase # simPhase
            THEN /\ phase_start_time' = simTime
                 /\ time_in_phase' = 0
                 /\ last_phase' = simPhase
            ELSE /\ time_in_phase' = simTime - phase_start_time
                 /\ phase_start_time' = phase_start_time
                 /\ last_phase' = last_phase
       /\ last'.outcome = "switched" =>
            /\ phase_start_time' = simTime
            /\ time_in_phase' = 0
            /\ last_phase' = last'.cmd
            /\ simPhase' = last'.cmd
      ]_vars

\* C4 witness: after a transition of its own (current_phase is set by
\* nothing else), a later tick found the phase changed behind its back and
\* restarted the phase clock.
C4_Witness ==
    /\ last.outcome = "min_green"
    /\ current_phase # 0
    /\ last_phase # current_phase
    /\ phase_start_time = last.time
    /\ time_in_phase = 0
    /\ last_phase = simPhase
    /\ phaseEntered < last.time

\* C5 (as claimed): when a phase command has been sent, the controller's
\* phase runtime state has been updated with it.
C5_NoPartialApply ==
    last.cmd # None =>
        /\ phase_start_time = last.time
        /\ time_in_phase = 0
        /\ last_phase = last.cmd
        /\ current_phase = last.cmd

\* The reward bookkeeping of one episode: the metrics at reset, then ticks.
TallyInit ==
    /\ CtlInit
    /\ config = [logics |-> <<FourPhase>>, program |-> 1]
    /\ readings = <<>>
    /\ enc = NoEnc
    /\ PolIdle
    /\ TrainIdle
    /\ call = NoCall
    /\ StartIdle
    /\ AggIdle
    /\ rew = NoReward
    /\ conn = "open"
    /\ \E m \in [TlsSet -> MetricsNow] : tally = Tally(0, 0, m, 0)

TallyNext ==
    \E rewards \in [TlsSet -> BasicRewards],
       current_metrics \in [TlsSet -> MetricsNow], lanes \in TallyLanes :
       EpisodeTick(rewards, current_metrics, lanes)

TallySpec == TallyInit /\ [][TallyNext]_vars

\* A training session to its end, by every way it can end, and the runtime
\* session that follows a saved run, to its end.
EndInit == TrainInit

EndNext ==
    \/ TrainNext
    \/ Interrupt
    \/ \E exists \in {TRUE} : pc = "saved" /\ Main(exists, TlsIds[1])
    \/ \E verify \in {"ok"} : Setup(verify)
    \/ \E cause \in EndCauses : EndRun(cause)
    \/ \E stop_fails \in BOOLEAN : Shutdown(stop_fails)

EndSpec == EndInit /\ [][EndNext]_vars

\* ---- encoder claims (checked under EncSpec)
\* The latest encoder call returned a state.
Produced == enc.who # "none" /\ ~enc.raised

AllNumbers(v) == \A i \in 1..Len(v) : IsNumber(v[i])

\* C6: every state an encoder produces, in training and at runtime, is a
\* tuple of length exactly 4 whose components are all in 0..4.
C6_StateShape ==
    Produced =>
        /\ Len(enc.state) = 4
        /\ \A i \in 1..Len(enc.state) : enc.state[i] \in 0..4

\* C6 witness: a state produced from more than 4 readings, the first of
\* them negative and fractional.
C6_Witness ==
    /\ Produced
    /\ enc.who = "train_v2"
    /\ enc.shape = "list"
    /\ Len(readings) > 4
    /\ readings[1] = Num(-1)

\* The values an encoder call extracted, in extraction order.
Extracted ==
    IF enc.who = "runtime" THEN readings
    ELSE extract_queue_lengths(MakeObs(enc.shape, enc.split))

\* The bucket function of the encoder that ran.
BucketOf(who, q) ==
    CASE who = "train" -> discretize_queue(q)
      [] who = "train_v2" -> discretize_queue_v2(q)
      [] OTHER -> agent_discretize_queue(q)

\* C7: for an observation yielding the numeric values v, the state is
\* bucket(v[i]) at i <= min(Len(v), 4) and 0 from there to 4: right-padded
\* with 0, truncated to the first 4, in extraction order.
C7_PadTruncate ==
    (Produced /\ enc.shape # "absent" /\ enc.fail = 0 /\ AllNumbers(Extracted)) =>
        enc.state = [i \in 1..4 |-> IF i <= Len(Extracted)
                                    THEN BucketOf(enc.who, Extracted[i])
                                    ELSE 0]

\* C7 witness: a mapping of two scalars and a nested sequence, five numeric
\* values in all, encoded to its first four.
C7_Witness ==
    /\ Produced
    /\ enc.shape = "dict"
    /\ enc.split = 2
    /\ Len(Extracted) = 5
    /\ AllNumbers(Extracted)
    /\ Extracted[5] # Extracted[1]
    /\ enc.state[1] # enc.state[4]

\* The bucket boundaries as the specification gives them, on whole vehicles.
SpecBucket(n) ==
    CASE n = 0 -> 0
      [] n \in 1..3 -> 1
      [] n \in 4..6 -> 2
      [] n \in 7..10 -> 3
      [] OTHER -> 4

\* C8: the bucket function maps 0 to 0, 1..3 to 1, 4..6 to 2, 7..10 to 3 and
\* every value above 10 to 4, in each of the three encoders.
C8_BucketBoundaries ==
    (/\ Produced
     /\ enc.shape \in {"list", "scalar", "lanes"}
     /\ enc.fail = 0
     /\ Len(readings) = 1
     /\ readings[1].k = "num"
     /\ readings[1].v >= 0
     /\ readings[1].v % Scale = 0) =>
        enc.state[1] = SpecBucket(readings[1].v \div Scale)

\* C8 witness: the reading 10, the last of bucket 3, encoded in training.
C8_Witness ==
    /\ Produced
    /\ enc.who = "train"
    /\ enc.shape = "scalar"
    /\ readings = <<Num(10 * Scale)>>
    /\ enc.state[1] = 3

\* An extraction failure: the intersection is missing from the observation,
\* a scalar does not parse, a sequence or mapping holds a non-number, or a
\* simulator read fails.
ExtractionFailure ==
    \/ enc.shape = "absent"
    \/ enc.shape = "scalar" /\ ~ParseFloat(readings[1]).ok
    \/ enc.shape \in {"list", "dict", "lanes"} /\ ~AllNumbers(readings)
    \/ enc.fail # 0

\* C9 (as claimed): on extraction failure the encoder returns the all-zero
\* state and raises no error to its caller, in training and at runtime.
C9_FailureGivesZeroState ==
    (enc.who # "none" /\ ExtractionFailure) =>
        /\ ~enc.raised
        /\ enc.state = <<0, 0, 0, 0>>

\* C10: for every sequence of numeric readings the runtime state equals the
\* state either training encoder gives for the same readings.
C10_SameEncoder ==
    /\ (enc.who = "runtime" /\ enc.fail = 0 /\ AllNumbers(readings)) =>
            /\ get_state_from_obs(ListObs(readings)) = Return(enc.state)
            /\ get_state_from_obs_v2(ListObs(readings)) = Return(enc.state)
    /\ (enc.who \in {"train", "train_v2"} /\ enc.shape = "list"
            /\ AllNumbers(readings)) =>
            get_state(ControlledLanes, readings, 0) = Return(enc.state)

\* C10 witness: five lanes, all read, encoded at runtime to a state that is
\* not the default.
C10_Witness ==
    /\ enc.who = "runtime"
    /\ enc.fail = 0
    /\ Len(readings) = 5
    /\ AllNumbers(readings)
    /\ enc.state # <<0, 0, 0, 0>>
    /\ enc.state[1] # enc.state[2]

\* ---- update rule and training selection (checked under QSpec)

\* The action values of a state under the lazy default: (0, 0) when absent.
Lookup(table, s) == IF s \in keys(table) THEN item(table, s) ELSE zeros

Updated == call'.fn = "update" /\ call'.n = call.n + 1
SelectedNow == call'.fn = "select" /\ call'.n = call.n + 1
Learnt == Q_tables[TlsIds[1]]

\* C11: update(s, a, r, s', alpha, gamma) sets Q[s][a] to
\* Q[s][a] + alpha * (r + gamma * max(Q[s'])- Q[s][a]) computed from the
\* values before the update (also when s' = s), to the resolution of the
\* values, and leaves every other action value as it was: Q[s][1 - a], the
\* values of every other state, and the other intersections' tables.
C11_UpdateRule ==
    [][Updated =>
          LET c == call'
              T == Q_tables[TlsIds[1]]
              T2 == Q_tables'[TlsIds[1]]
              old == Lookup(T, c.state)[c.action + 1]
              q2 == Lookup(T, c.next_state)
              best == IF q2[1] >= q2[2] THEN q2[1] ELSE q2[2]
              new == Lookup(T2, c.state)[c.action + 1]
              num == c.al.n * (gamma.d * c.reward + gamma.n * best
                               - gamma.d * old)
              den == c.al.d * gamma.d
          IN  /\ den * (new - old) <= num
              /\ num < den * (new - old) + den
              /\ \A s \in TrainStates \cup keys(T) \cup keys(T2), b \in Actions :
                    (s # c.state \/ b # c.action)
                        => Lookup(T2, s)[b + 1] = Lookup(T, s)[b + 1]
              /\ \A t \in TlsSet \ {TlsIds[1]} : Q_tables'[t] = Q_tables[t]
      ]_vars

\* An update with s' = s at the program's learning rate, on a state whose
\* other action already holds a learnt value, with a second state in the table.
C11_Witness ==
    /\ call.fn = "update"
    /\ call.next_state = call.state
    /\ call.al = alpha
    /\ call.reward # 0
    /\ Len(Learnt) = 2
    /\ item(Learnt, call.state)[2 - call.action] # 0
    /\ item(Learnt, call.state)[call.action + 1] # 0

\* C12: an update with zero reward and zero learning rate leaves the action
\* values of every state unchanged, and applying it again gives the same table.
C12_ZeroRateIdempotent ==
    [][(Updated /\ call'.al.n = 0 /\ call'.reward = 0) =>
          LET c == call'
              T == Q_tables[TlsIds[1]]
              T2 == Q_tables'[TlsIds[1]]
          IN  /\ \A s \in TrainStates \cup keys(T) \cup keys(T2) :
                    Lookup(T2, s) = Lookup(T, s)
              /\ update(T2, c.state, c.action, c.reward, c.next_state, c.al,
                        gamma) = T2
      ]_vars

\* A zero-rate, zero-reward update of a cell that holds a learnt value, with
\* a learnt value in the next state as well.
C12_Witness ==
    /\ call.fn = "update"
    /\ call.al.n = 0
    /\ call.reward = 0
    /\ call.state \in keys(Learnt)
    /\ item(Learnt, call.state)[call.action + 1] # 0

\* C15: when the exploration draw is not below epsilon, the selected action
\* is the argmax of the state's action values, and KEEP (0) on an exact tie,
\* a never-seen state with values (0, 0) included.
C15_GreedyArgmax ==
    [][(SelectedNow /\ ~(call'.draw < call'.eps)) =>
          LET q == Lookup(Q_tables[TlsIds[1]], call'.state)
              a == call'.action
          IN  /\ a \in Actions
              /\ q[a + 1] >= q[1] /\ q[a + 1] >= q[2]
              /\ (q[1] = q[2] => a = 0)
      ]_vars

\* A greedy selection on a state whose two values tie at (0, 0), under a
\* positive epsilon.
C15_Witness ==
    /\ call.fn = "select"
    /\ call.eps > 0
    /\ ~(call.draw < call.eps)
    /\ item(Learnt, call.state) = zeros
    /\ call.action = 0

\* C16: with epsilon = 0 the selection never explores, and every other random
\* draw would have selected the same action on the same table and state.
C16_ZeroEpsilonDeterministic ==
    [][(SelectedNow /\ call'.eps = 0) =>
          /\ ~call'.explored
          /\ \A d \in Draws, coin \in Actions :
                select(Q_tables[TlsIds[1]], call'.state, 0, d, coin).action
                    = call'.action
      ]_vars

\* A selection with epsilon = 0 and the smallest draw, 0.0, that returns
\* SWITCH from learnt values.
C16_Witness ==
    /\ call.fn = "select"
    /\ call.eps = 0
    /\ call.draw = 0
    /\ call.action = 1

\* ---- training loop (checked under TrainSpec and ScheduleSpec)

\* C13: in training every step (ticks, episode resets, aborted episodes)
\* keeps every state already held in an intersection's table, and a state
\* that enters the table enters with the values (0, 0): the only value of a
\* new entry that differs from 0 is the cell the same tick's update wrote.
C13_TableGrowsOnly ==
    [][\A t \in TlsSet :
          LET T == Q_tables[t]
              T2 == Q_tables'[t]
          IN  /\ keys(T) \subseteq keys(T2)
              /\ \A s \in keys(T2) \ keys(T), b \in Actions :
                    item(T2, s)[b + 1] # 0
                        => (pc = "step" /\ s = states[t] /\ b = actions[t])
      ]_vars

\* A later episode holds what an earlier one learnt, next to an entry that a
\* first read created with (0, 0).
C13_Witness ==
    /\ episode >= 1
    /\ pc \in {"select", "step"}
    /\ \E t \in TlsSet :
          /\ Len(Q_tables[t]) >= 2
          /\ \E i \in 1..Len(Q_tables[t]) : Q_tables[t][i].q # zeros
          /\ \E i \in 1..Len(Q_tables[t]) : Q_tables[t][i].q = zeros

\* C17: epsilon changes only where the episode index advances, and there it
\* becomes max(epsilon_min, epsilon * decay) with epsilon_min = 0.01; it never
\* increases, never falls below 0.01 and never exceeds 1.0, across the
\* checkpoints at which the decay rate changes.
C17_EpsilonSchedule ==
    [][/\ episode' = episode => epsilon' = epsilon
       /\ episode' # episode =>
             /\ episode' = episode + 1
             /\ LET x == (epsilon * epsilon_decay) \div 1000
                IN  epsilon' = IF x < epsilon_min THEN epsilon_min ELSE x
       /\ epsilon' <= epsilon
       /\ 100 * epsilon' >= Unit
       /\ epsilon' <= Unit
       /\ 100 * epsilon_min = Unit
      ]_vars

\* Epsilon rests on its floor after the last checkpoint.
C17_Witness ==
    /\ episode > 500
    /\ epsilon_decay = 995
    /\ epsilon = epsilon_min

\* ---- runtime policy (checked under Spec and PolicySpec)

\* C14: at runtime no step (a control tick with its action lookup, on seen
\* and unseen states, through the similarity search; a simulator step)
\* adds, removes or changes an entry of the loaded table.
C14_TableFrozen == [][q_table' = q_table]_vars

\* A control tick has looked up an unseen state through the similarity
\* search and commanded a phase.
C14_Witness ==
    /\ call.fn = "get_action"
    /\ call.state \notin keys(q_table)
    /\ call.state # ZeroState
    /\ last.outcome = "switched"

Decided == call'.fn = "get_action"

C19_EmptyStateDraw ==
    [][(Decided /\ call'.state = ZeroState /\ ZeroState \notin keys(q_table)) =>
          /\ call'.action \in Actions
          /\ call'.action = 0 <=> 10 * call'.draw < 8 * Unit
      ]_vars

\* KEEP on a draw just below 0.8 although the table's only state, which
\* shares 3 positions with (0,0,0,0), prefers SWITCH.
C19_Witness ==
    /\ call.fn = "get_action"
    /\ call.state = ZeroState
    /\ q_table = <<Entry(<<0, 0, 0, 1>>, <<0, Unit \div 2>>)>>
    /\ call.draw = (8 * Unit) \div 10 - 1
    /\ call.action = 0

Unseen == call'.state \notin keys(q_table) /\ call'.state # ZeroState
Shared(i) ==
    Cardinality({j \in 1..4 : call'.state[j] = q_table[i].state[j]})
BestOf(i) == IF q_table[i].q[2] > q_table[i].q[1] THEN 1 ELSE 0

\* C20 (as stated): an unseen non-empty state sharing exactly 3 of 4
\* positions with a known state returns that known state's best action, for
\* every table that contains that known state.
C20_EveryCloseStateDecides ==
    [][(Decided /\ Unseen) =>
          \A i \in 1..Len(q_table) :
             Shared(i) = 3 => call'.action = BestOf(i)
      ]_vars

\* C20 (amended): on an unseen non-empty state get_action takes the first
\* table state, in the table's order, among those with the highest
\* per-position equality count and, when that count is at least 2 of 4,
\* returns the argmax of that state's values (KEEP on a tie); an unseen state
\* sharing exactly 3 of 4 positions with a known state returns that state's
\* best action when no state before it in the table shares 3 positions too.
C20_FirstClosestDecides ==
    [][(Decided /\ Unseen /\ q_table # <<>>) =>
          LET top == CHOOSE m \in 0..4 :
                        /\ \E i \in 1..Len(q_table) : Shared(i) = m
                        /\ \A i \in 1..Len(q_table) : Shared(i) <= m
              first == CHOOSE i \in 1..Len(q_table) :
                          /\ Shared(i) = top
                          /\ \A j \in 1..(i - 1) : Shared(j) < top
          IN  /\ top >= 2 => call'.action = BestOf(first)
              /\ \A i \in 1..Len(q_table) :
                    (Shared(i) = 3 /\ \A j \in 1..(i - 1) : Shared(j) # 3)
                        => call'.action = BestOf(i)
      ]_vars

\* Two known states share 3 positions with the unseen state and disagree;
\* the first one in the table decided.
C20_Witness ==
    /\ call.fn = "get_action"
    /\ call.state = <<1, 1, 1, 1>>
    /\ Len(q_table) = 2
    /\ q_table[1].state = <<0, 1, 1, 1>>
    /\ q_table[2].state = <<1, 1, 1, 0>>
    /\ q_table[1].q = <<0, Unit \div 2>>
    /\ q_table[2].q = <<Unit \div 2, 0>>
    /\ call.action = 1


\* C21: on an unseen state other than (0,0,0,0), get_action returns SWITCH
\* whenever no table state shares at least 2 of 4 positions with it, the
\* empty table included.
C21_FarStateSwitches ==
    [][(Decided /\ Unseen /\ \A i \in 1..Len(q_table) : Shared(i) <= 1) =>
          call'.action = 1
      ]_vars

\* The table's only state shares one position with the asked state and
\* prefers KEEP; the answer was SWITCH.
C21_Witness ==
    /\ call.fn = "get_action"
    /\ call.state = <<1, 1, 4, 4>>
    /\ q_table = <<Entry(<<0, 1, 1, 1>>, <<Unit \div 2, 0>>)>>
    /\ call.action = 1

\* The empty table answered SWITCH.
C21_EmptyTableReached ==
    /\ call.fn = "get_action"
    /\ call.state = <<4, 4, 4, 4>>
    /\ q_table = <<>>
    /\ call.action = 1

\* The file at the path does not give the intersection a table: it is
\* absent, does not unpickle, or lacks the intersection's identifier.
BadArtifact ==
    \/ artifact.kind # "mapping"
    \/ \A i \in 1..Len(artifact.data) : artifact.data[i].tls_id # TlsIds[1]

\* C22 (as claimed): with a missing or corrupt file of persisted tables, or
\* one without the intersection's identifier, the runtime session still
\* starts, the intersection runs on an empty table and every decision comes
\* from the fallback for unseen states.
C22_ArtifactErrorsRecovered ==
    BadArtifact =>
        /\ session # "refused"
        /\ session = "running" => q_table = <<>>
        /\ (session = "running" /\ call.fn = "get_action") =>
              call.state \notin keys(q_table)

Computed == rew # NoReward

\* C24: the reward is basic_reward plus the waiting component plus the
\* efficiency component; the waiting component is
\* -0.4 * (max(0, current_waiting - prev_waiting) / 10 + current_waiting / 1000),
\* so a decrease of the waiting time leaves only the term of the current
\* waiting time; waiting rising from 50 to 80 gives -1.232 and, with
\* basic_reward -2 and no efficiency, the reward -3.232.
C24_RewardComponents ==
    Computed =>
        LET p == IF rew.args.prev_metrics.total_waiting_time = None THEN 0
                 ELSE rew.args.prev_metrics.total_waiting_time
            c == rew.args.current_metrics.total_waiting_time
            rise == IF c > p THEN c - p ELSE 0
            milli == Unit \div 1000
        IN  /\ rew.value = rew.args.basic_reward + rew.waiting + rew.efficiency
            /\ 10 * rew.waiting = 0 - 4 * (100 * rise + c) * milli
            /\ c <= p => 10 * rew.waiting = 0 - 4 * c * milli
            /\ (p = 50 /\ c = 80) => rew.waiting = 0 - 1232 * milli
            /\ (p = 50 /\ c = 80 /\ rew.args.basic_reward = 0 - 2 * Unit
                  /\ rew.efficiency = 0)
                  => rew.value = 0 - 3232 * milli

\* Waiting rose from 50 to 80 with basic_reward -2 and standing lanes: the
\* reward was -3.232.
C24_Witness ==
    /\ Computed
    /\ rew.args.prev_metrics.total_waiting_time = 50
    /\ rew.args.current_metrics.total_waiting_time = 80
    /\ rew.args.basic_reward = 0 - 2 * Unit
    /\ ~rew.fail
    /\ rew.efficiency = 0
    /\ rew.value = 0 - 3232 * (Unit \div 1000)

\* Waiting fell from 80 to 50: the component is -0.4 * 50 / 1000 = -0.02.
C24_DecreaseReached ==
    /\ Computed
    /\ rew.args.prev_metrics.total_waiting_time = 80
    /\ rew.args.current_metrics.total_waiting_time = 50
    /\ rew.waiting = 0 - 20 * (Unit \div 1000)

\* C25 (as claimed): two calls of the reward with the same intersection,
\* previous metrics, current metrics and basic reward return the same value,
\* whatever the simulator's state at each call.
C25_RewardDeterministic == rew.same => rew.value = rew.before

\* A step on which the coordinator took a message off its inbox.
Took == received'.n = received.n + 1
\* What a push of one value onto history h leaves in a window of 100.
Pushed(h, h2) ==
    /\ h2 # <<>>
    /\ SubSeq(h2, 1, Len(h2) - 1)
          = IF Len(h) < HistoryWindow THEN h ELSE Tail(h)

\* C26 (as claimed): after any sequence of received messages each history of
\* an intersection holds at most 100 entries, and a stored message pushes its
\* observation onto each history, evicting the oldest entry exactly when the
\* history is full.
C26_BoundedFifo ==
    [][/\ \A t \in DOMAIN statistics' :
             /\ Len(statistics'[t].queue_history) <= HistoryWindow
             /\ Len(statistics'[t].waiting_history) <= HistoryWindow
       /\ (Took /\ received'.outcome = "stored") =>
             \A t \in DOMAIN statistics' :
                LET old == IF t \in DOMAIN statistics THEN statistics[t]
                           ELSE History(<<>>, <<>>, 0)
                    new == statistics'[t]
                IN  \/ new = old
                    \/ /\ Pushed(old.queue_history, new.queue_history)
                       /\ Pushed(old.waiting_history, new.waiting_history)
      ]_vars

\* C27 (as claimed): a malformed message is reported and discarded, the
\* statistics store staying exactly as it was before the message arrived.
C27_MalformedDiscarded ==
    [][(Took /\ received'.body \in Malformed) =>
          /\ received'.outcome = "error"
          /\ statistics' = statistics
      ]_vars

\* A step of the statistics side (a report handed over, lost, received) and
\* a step of the control side (the simulator, the controller, its table).
ReportingStep == aggVars' # aggVars
ControlStep ==
    <<simVars, ctlVars, polVars, last, call>>'
        # <<simVars, ctlVars, polVars, last, call>>

ValueAt(table, s, a) == IF s \in keys(table) THEN item(table, s)[a + 1] ELSE 0
Learned(t, s, a) == ValueAt(Q_tables'[t], s, a) # ValueAt(Q_tables[t], s, a)

\* C29: in every training tick the actions of all the intersections are
\* selected from the states before the step and before the simulator moves,
\* the simulator is stepped exactly once with the complete action map, and
\* every table update of the tick comes with that step and lands on the
\* state and the action selected before it.
C29_SelectStepUpdate ==
    [][/\ pc = "select" =>
             /\ pc' = "step"
             /\ ticks' = ticks
             /\ states' = states
             /\ DOMAIN actions' = TlsSet
             /\ \A t \in TlsSet : actions'[t] \in Actions
       /\ pc = "step" /\ pc' = "select" => ticks' = ticks + 1
       /\ ticks' # ticks =>
             /\ pc = "step"
             /\ ticks' = ticks + 1
             /\ actions' = actions
       /\ \A t \in TlsSet, s \in TrainStates, a \in Actions :
             Learned(t, s, a) =>
                 /\ ticks' = ticks + 1
                 /\ s = states[t]
                 /\ a = actions[t]
      ]_vars

\* After one tick the first intersection has moved to a new state, and what
\* it learned sits on the state it had left, under the action it had chosen.
C29_Witness ==
    /\ ticks = 1
    /\ states[TlsIds[1]] = <<1, 0, 0, 0>>
    /\ actions[TlsIds[1]] = 1
    /\ ValueAt(Q_tables[TlsIds[1]], ZeroState, 1) # 0
    /\ ValueAt(Q_tables[TlsIds[1]], <<1, 0, 0, 0>>, 1) = 0

\* What one episode can still do: a reset, max_steps ticks of two steps
\* each, and the decay.
EpisodeBudget == 2 * max_steps + 2
AfterDecay == 3 + (episodes - episode - 1) * EpisodeBudget
\* The number of steps the training can still take, at most.
Remaining ==
    CASE pc \in {"saved", "crashed"} -> 0
      [] pc = "close" -> 1
      [] pc = "reset" -> 2 + (episodes - episode) * EpisodeBudget
      [] pc = "select" -> AfterDecay + 2 * (max_steps - step_count)
      [] pc = "step" -> AfterDecay + 2 * (max_steps - step_count) - 1
      [] pc = "decay" -> AfterDecay
      [] OTHER -> 0

InEpisode ==
    pc \in {"select", "step"} =>
        /\ ~done
        /\ step_count < max_steps
        /\ episode < episodes

\* C30: training terminates. An episode goes on only while the done signal
\* is down and fewer than max_steps ticks were taken, so it ends at the signal
\* or at the cap, whichever comes first, also when the signal is never
\* raised; no more than `episodes` episodes run; and every step of the
\* training uses up some of a finite budget.
C30_TrainingTerminates ==
    [][/\ Remaining' < Remaining
       /\ Remaining' >= 0
       /\ InEpisode'
       /\ step_count' <= max_steps
       /\ episode' <= episodes
      ]_vars

\* An episode was cut at the cap: the done signal never came.
C30_Witness ==
    /\ pc = "decay"
    /\ step_count = max_steps
    /\ ~done
    /\ episode = 1

\* ---- session end, failures and late claims
\* C39: the episode reward accumulated by the training loop equals the sum,
\* over the episode's ticks and all intersections, of the enhanced reward
\* that the tick's table update was given.
C39_EpisodeRewardIsApplied == tally.episode_reward = tally.applied

\* C31: on every way the training session ends that the contract names (all
\* episodes done, a failed reset, a failed step, an interruption by the
\* user), the file holds exactly one table per intersection, equal to the
\* table learnt at that moment.
C31_PersistedAtEnd ==
    pc \in {"saved", "interrupted"} => artifact = dump(Q_tables)

\* C32: a session that a fatal error or an interruption has ended, in
\* training and at runtime, has released its simulator connection, also
\* when stopping the agents failed.
C32_ConnectionReleased ==
    (pc = "interrupted" \/ session = "ended") => conn = "closed"

\* C33: a failed simulator call inside a runtime control tick does not stop
\* the remaining steps of the tick. Whenever a tick ends in a reported error
\* and the same tick without the failure would have gone on to ask the
\* policy, the policy has still been asked.
C33_TickGoesOn ==
    [][(/\ last'.outcome = "error"
        /\ ~(simTime - last_decision_time < decision_interval)
        /\ RunBody("none", 1).report.action # None)
       => last'.action # None]_vars

\* C34: on a decision tick at which the phase the simulator reports differs
\* from the controller's last-known phase, the first tick of the session
\* (no phase known yet) included, no phase command is issued and the signal
\* keeps its phase, whatever the policy would decide.
C34_NoCommandOnMismatch ==
    [][(/\ last'.outcome # "idle"
        /\ last_decision_time' = simTime
        /\ last'.phase # None
        /\ last_phase # simPhase)
       => /\ last'.cmd = None
          /\ last'.action = None
          /\ simPhase' = simPhase]_vars

\* A tick found the signal in another phase than the one it knew, after that
\* one had been held for min_green seconds: the clock was restarted and the
\* policy was not asked.
C34_Witness ==
    /\ last.outcome = "min_green"
    /\ last.time = simTime
    /\ phase_start_time = simTime
    /\ time_in_phase = 0
    /\ last_phase = simPhase
    /\ simTime - phaseEntered < min_green
    /\ simTime >= 2 * decision_interval

\* The first tick of the session: no phase was known, none is commanded.
C34_FirstTickReached ==
    /\ last.outcome = "min_green"
    /\ last.time = simTime
    /\ phase_start_time = simTime
    /\ simTime = decision_interval

\* C35: a phase command issued for a SWITCH targets another phase than the
\* one the tick found the signal in, for every phase program.
C35_SwitchChangesPhase == last.cmd # None => last.cmd # last.phase

\* C36: for every intersection the coordinator knows, queue_history and
\* waiting_history have the same length, after any sequence of received
\* messages, well-formed or malformed.
C36_HistoriesAligned ==
    \A t \in DOMAIN statistics :
        Len(statistics[t].queue_history) = Len(statistics[t].waiting_history)

\* The same dict with its items inserted in the order p.
Orders(n) == {p \in [1..n -> 1..n] : \A i, j \in 1..n : p[i] = p[j] => i = j}
Reordered(table, p) == [i \in 1..Len(table) |-> table[p[i]]]

\* C37: the similarity fallback does not depend on the order of the table:
\* for an unseen state, get_action returns the same action on every table
\* that holds the same items in another insertion order.
C37_OrderIndependent ==
    [][(Decided /\ call'.state \notin keys(q_table)) =>
          \A p \in Orders(Len(q_table)) :
              get_action(Reordered(q_table, p), call'.state,
                         call'.draw).action = call'.action]_vars

\* The known state the fallback resolves s to: the first one in the table's
\* order among those that share the most positions with s.
ClosestKnown(table, s) ==
    LET i == CHOOSE k \in 1..Len(table) :
                 /\ \A j \in 1..Len(table) :
                        similarity(s, table[j].state)
                            <= similarity(s, table[k].state)
                 /\ \A j \in 1..(k - 1) :
                        similarity(s, table[j].state)
                            < similarity(s, table[k].state)
    IN  table[i].state

\* C38: when get_action resolves an unseen state through the similarity
\* fallback to a known state K, it returns what it returns when called on K
\* itself, also when K's two values are tied or closer than 0.1.
C38_FallbackAsDirect ==
    [][(/\ Decided
        /\ call'.state \notin keys(q_table)
        /\ call'.state # ZeroState
        /\ find_similar_state_action(q_table, call'.state) # None)
       => call'.action
              = get_action(q_table, ClosestKnown(q_table, call'.state),
                           call'.draw).action]_vars

\* C40: the start-up control test leaves the signal as it found it: on every
\* path through setup(), a simulator call failing after the test phase was
\* commanded included, the phase in force when setup() ends is the phase
\* read at the start of the test, and the behaviours are installed.
C40_SetupRestoresPhase ==
    [][(session = "starting" /\ session' = "running") =>
          simPhase' = simPhase]_vars
=============================================================================
